---- MODULE Spec2Model ----
(***************************************************************************)
(* Job card lifecycle and financial reconciliation of clutch-gear-backend. *)
(* One job card, its estimate, its invoices and its payments.  Money is    *)
(* counted in paise (1 = Rs 0.01), so round2 is rounding to an integer.    *)
(***************************************************************************)
EXTENDS Integers, Sequences, FiniteSets, TLC

VARIABLES
    status,            \* jobCard.status
    statusHistory,     \* jobCard.statusHistory
    assigned,          \* jobCard.assignedMechanicUserIds
    jobItems,          \* jobCard.jobItems
    nextItemId,        \* source of jobItems[i]._id
    billing,           \* jobCard.billing
    estimate,          \* jobCard.estimate
    estimateHistory,   \* jobCard.estimateHistory
    invoices,          \* the Invoice collection (of this job card)
    payments,          \* the Payment collection (of this job card)
    reqs,              \* invoice requests between their lookup and their insert
    now,               \* the clock read by new Date()
    resp,              \* the response of the last finished request
    usage,             \* the Coupon document's usage counters
    advance,           \* the Payment created by createInvoicePayment
    refunds,           \* the RefundRequest collection (of that payment)
    effects,           \* the side effects: those that got through, those that failed
    calls,             \* payment, refund and coupon requests between their steps
    created,           \* the number of documents in the JobCard collection
    insuranceJob       \* the InsuranceJob document of this job card

vars == <<status, statusHistory, assigned, jobItems, nextItemId, billing,
          estimate, estimateHistory, invoices, payments, reqs, now, resp,
          usage, advance, refunds, effects, calls, created, insuranceJob>>

\* the state of the coupon, the advanced payment ledger and the outside world
extVars == <<usage, advance, refunds, effects, calls, created, insuranceJob>>

jobVars == <<status, statusHistory, assigned, jobItems, nextItemId, billing,
             estimate, estimateHistory>>

----------------------------------------------------------------------------
(* Bounds of the model *)

MaxItems == 1
MaxHistory == 3
MaxVersion == 2
MaxPayments == 2
MaxInvoices == 2
MaxTime == 1
MaxRefunds == 2
MaxTransactions == 2
MaxJobCards == 2
MaxClaimHistory == 5
MaxDocuments == 1

(* Program constants *)

Tolerance == 1
DefaultTaxRate == 18

None == "none"
\* null or undefined, where the value is a number or a date
Null == 0 - 1
Customer == "customer"
Admin == "admin"
Mechanics == {"mech"}

\* the statuses the admin and the mechanic ask for
AdminStatuses == {"inspection", "ready", "delivered", "cancelled"}
MechanicStatuses == {"in-progress", "delivered"}

Statuses == {"created", "inspection", "awaiting-approval", "approved",
             "in-progress", "quality-check", "ready", "delivered", "cancelled"}

(* Inputs of the requests *)
\* discount and taxRate of a billing update (Null: not in the request)
BillingInputs == { <<40, Null>>, <<200, 0>> }
OneItem == << [quantity |-> 1, unitPrice |-> 106, discount |-> 0] >>
\* items, discountAmount, discountReason, taxRate, expiresAt of an estimate request
BillingEstimateInputs ==
    { << OneItem, 0, "", Null, Null >>,
      << OneItem, 40, "goodwill", 0, Null >> }
EstimateInputs ==
    { << OneItem, 0, "", Null, Null >>,
      << OneItem, 106, "goodwill", Null, Null >>,
      << OneItem, 40, "goodwill", 0, 0 >> }
PayAmounts == {62, 63}
\* the coupons on offer, both flat
Coupons == {"SAVE40"}

\* the coupon codes that exist
CouponCodes == {"SAVE40", "ONCE10"}

Max(a, b) == IF a >= b THEN a ELSE b
Min(a, b) == IF a <= b THEN a ELSE b

RECURSIVE SumTotals(_)
SumTotals(items) ==
    IF items = <<>> THEN 0 ELSE Head(items).total + SumTotals(Tail(items))

\* the item filter that takes every item, approved or not
SelectItemsAll(items, onlyApproved) == items

SelectItems(items, onlyApproved) ==
    SelectSeq(items, LAMBDA i : (~onlyApproved) \/ i.isApproved)

\* Math.round((n + EPSILON) * 100) / 100 of the rational num/den paise
round2(num, den) == (2 * num + den) \div (2 * den)

\* quantity, unitPrice, discount -> item.total
LineTotal(quantity, unitPrice, discount) ==
    LET q == Max(1, quantity)
        p == Max(0, unitPrice)
        d == Min(Max(discount, 0), 100)
    IN  round2(Max(0, q * p * 100 - q * p * d), 100)

\* jobCard.calculateBilling({ onlyApproved })
calculateBilling(b, items, onlyApproved) ==
    LET subtotal == SumTotals(SelectItems(items, onlyApproved))
        afterDiscount == Max(0, subtotal - b.discount)
        taxAmount == round2(afterDiscount * b.taxRate, 100)
    IN  [b EXCEPT !.subtotal = subtotal,
                  !.taxAmount = taxAmount,
                  !.grandTotal = round2(afterDiscount + taxAmount, 1)]

\* Payment.getJobCardPayments(jobCardId).totalPaid
RECURSIVE SumCompleted(_)
SumCompleted(ps) ==
    IF ps = <<>> THEN 0
    ELSE (IF Head(ps).status = "completed" THEN Head(ps).amount ELSE 0)
         + SumCompleted(Tail(ps))

getJobCardPayments == SumCompleted(payments)

HistoryEntry(s, by, notes) == [status |-> s, changedBy |-> by, notes |-> notes]

\* responses: the handler, the status it was asked for (status updates only), the
\* ApiError factory that made the error, the message it carries and the balance
\* the message states
Ok(op) == [op |-> op, arg |-> None, err |-> None, msg |-> None, bal |-> 0]
Err(op, kind, msg) == [op |-> op, arg |-> None, err |-> kind, msg |-> msg, bal |-> 0]
OkStatus(op, reqStatus) == [Ok(op) EXCEPT !.arg = reqStatus]
ErrStatus(op, reqStatus, kind, msg, balance) ==
    [op |-> op, arg |-> reqStatus, err |-> kind, msg |-> msg, bal |-> balance]

\* a job card without an estimate (jobCard.estimate is undefined; version || 0)
NoEstimate ==
    [version |-> 0, status |-> "NONE", items |-> <<>>, subtotal |-> 0,
     discountAmount |-> 0, discountReason |-> "", taxRate |-> 0, taxAmount |-> 0,
     grandTotal |-> 0, expiresAt |-> Null]

EmptyBilling ==
    [subtotal |-> 0, discount |-> 0, discountReason |-> "", taxRate |-> DefaultTaxRate,
     taxAmount |-> 0, grandTotal |-> 0, coupon |-> ""]

\* the requests for an invoice that may be in flight at once
ReqIds == {1, 2}

IdleReq == [kind |-> "idle", pc |-> "idle", billing |-> EmptyBilling, items |-> <<>>,
            num |-> 0]

\* the payment, refund and coupon requests that may be in flight at once
CallIds == {1, 2}

\* a request holds what it was asked (id, key, amount) and the document it loaded
IdleCall == [op |-> "idle", pc |-> "idle", id |-> 0, order |-> "", key |-> "",
             sig |-> <<>>, amount |-> 0, doc |-> [paidAmount |-> 0]]

\* before createInvoicePayment there is no payment in the advanced ledger
NoPayment == [exists |-> FALSE, totalAmount |-> 0, paidAmount |-> 0, balanceAmount |-> 0,
              paymentStatus |-> None, status |-> None, paymentMethod |-> None,
              transactionId |-> "", transactions |-> <<>>]

----------------------------------------------------------------------------
(* createJobCard: the job card as it is after construction *)

\* no InsuranceJob with this job card's jobCardId
NoInsuranceJob ==
    [exists |-> FALSE, claimStatus |-> None, statusHistory |-> <<>>, documents |-> <<>>]

Init ==
    /\ status = "created"
    /\ statusHistory = << HistoryEntry("created", Admin, "Job card created") >>
    /\ assigned = {}
    /\ jobItems = <<>>
    /\ nextItemId = 1
    /\ billing = calculateBilling(EmptyBilling, <<>>, FALSE)
    /\ estimate = NoEstimate
    /\ estimateHistory = <<>>
    /\ invoices = <<>>
    /\ payments = <<>>
    /\ reqs = [r \in ReqIds |-> IdleReq]
    /\ now = 0
    /\ resp = Ok("createJobCard")
    /\ usage = [code \in CouponCodes |-> [usedCount |-> 0, perUser |-> 0]]
    /\ advance = NoPayment
    /\ refunds = <<>>
    /\ effects = [notices |-> {}, failed |-> {}, refunds |-> <<>>]
    /\ calls = [c \in CallIds |-> IdleCall]
    /\ created = 1
    /\ insuranceJob = NoInsuranceJob

\* createJobCard of a further job card: `found` says whether the customer and
\* the vehicle exist; the job card is created and saved with its billing, and
\* only then are the mechanics looked up
createJobCard(found, mechanicUserIds) ==
    /\ IF ~found
       THEN /\ resp' = Err("createJobCard", "notFound", "notFound")
            /\ UNCHANGED created
       ELSE /\ created < MaxJobCards
            /\ created' = created + 1
            /\ resp' = IF mechanicUserIds # {} /\ ~(mechanicUserIds \subseteq Mechanics)
                       THEN Err("createJobCard", "badRequest", "invalidMechanics")
                       ELSE Ok("createJobCard")
    /\ UNCHANGED <<jobVars, invoices, payments, reqs, now, usage, advance, refunds,
                   effects, calls, insuranceJob>>

Tick ==
    /\ now < MaxTime
    /\ now' = now + 1
    /\ UNCHANGED <<jobVars, invoices, payments, reqs, resp>>
    /\ UNCHANGED extVars

----------------------------------------------------------------------------
(* The job card model's methods *)

\* jobCard.updateStatus(status, userId, notes): sets the status, appends the
\* history entry and saves
updateStatus(s, by, notes) ==
    /\ Len(statusHistory) < MaxHistory
    /\ status' = s
    /\ statusHistory' = Append(statusHistory, HistoryEntry(s, by, notes))

\* jobCard.updateStatus(req.userId, note) followed by jobCard.status = s: the
\* user id lands in the status parameter and the note in the userId parameter
updateStatusShifted(userId, note, s) ==
    /\ Len(statusHistory) < MaxHistory
    /\ statusHistory' = Append(statusHistory, HistoryEntry(userId, note, ""))
    /\ status' = s

\* the save inside that call writes a user id into the status field; a schema
\* that restricts the field to the status names refuses it and the request ends
\* with nothing written
StatusRefused(op) ==
    /\ resp' = Err(op, "internal", "validation")
    /\ UNCHANGED <<status, statusHistory, billing, estimate>>

balanceDue == Max(0, billing.grandTotal - getJobCardPayments)

----------------------------------------------------------------------------
(* Admin and mechanic status updates *)

\* the guard of a requested status change, shared by both handlers:
\* "ok", "notReady" or "balanceDue"
\* DeliveredGuard without its balance check
DeliveredGuardNoBalance(reqStatus, above) ==
    IF reqStatus # "delivered" THEN "ok"
    ELSE IF status # "ready" THEN "notReady"
    ELSE "ok"

\* balanceDue > 0.01 is a comparison of binary floating point numbers: a
\* difference of exactly one paisa comes out just above 0.01 (1.25 - 1.24) or
\* just below (0.11 - 0.10), as the operands have it
DeliveredGuard(reqStatus, above) ==
    IF reqStatus # "delivered" THEN "ok"
    ELSE IF status # "ready" THEN "notReady"
    ELSE IF balanceDue > Tolerance \/ (balanceDue = Tolerance /\ above) THEN "balanceDue"
    ELSE "ok"

updateJobCard(reqStatus, above) ==
    /\ IF reqStatus # None /\ reqStatus # status
       THEN CASE DeliveredGuard(reqStatus, above) = "notReady" ->
                    /\ resp' = ErrStatus("updateJobCard", reqStatus, "badRequest",
                                         "notReady", 0)
                    /\ UNCHANGED <<status, statusHistory>>
              [] DeliveredGuard(reqStatus, above) = "balanceDue" ->
                    /\ resp' = ErrStatus("updateJobCard", reqStatus, "badRequest", "balanceDue",
                                         balanceDue)
                    /\ UNCHANGED <<status, statusHistory>>
              [] OTHER ->
                    /\ updateStatus(reqStatus, Admin, "Status changed")
                    /\ resp' = OkStatus("updateJobCard", reqStatus)
       ELSE /\ resp' = OkStatus("updateJobCard", reqStatus)
            /\ UNCHANGED <<status, statusHistory>>
    /\ UNCHANGED <<assigned, jobItems, nextItemId, billing, estimate, estimateHistory,
                   invoices, payments, reqs, now>>
    /\ UNCHANGED extVars

assignMechanics(ids) ==
    /\ assigned' = ids
    /\ resp' = Ok("assignMechanics")
    /\ UNCHANGED <<status, statusHistory, jobItems, nextItemId, billing, estimate,
                   estimateHistory, invoices, payments, reqs, now>>
    /\ UNCHANGED extVars

updateAssignedJobCardStatus(mech, reqStatus, above) ==
    /\ IF mech \notin assigned
       THEN /\ resp' = ErrStatus("updateAssignedJobCardStatus", reqStatus, "forbidden",
                              "notAssigned", 0)
            /\ UNCHANGED <<status, statusHistory>>
       ELSE IF reqStatus # status
       THEN CASE DeliveredGuard(reqStatus, above) = "notReady" ->
                    /\ resp' = ErrStatus("updateAssignedJobCardStatus", reqStatus,
                                         "badRequest", "notReady", 0)
                    /\ UNCHANGED <<status, statusHistory>>
              [] DeliveredGuard(reqStatus, above) = "balanceDue" ->
                    /\ resp' = ErrStatus("updateAssignedJobCardStatus", reqStatus,
                                         "badRequest", "balanceDue", balanceDue)
                    /\ UNCHANGED <<status, statusHistory>>
              [] OTHER ->
                    /\ updateStatus(reqStatus, mech, "")
                    /\ resp' = OkStatus("updateAssignedJobCardStatus", reqStatus)
       ELSE /\ resp' = OkStatus("updateAssignedJobCardStatus", reqStatus)
            /\ UNCHANGED <<status, statusHistory>>
    /\ UNCHANGED <<assigned, jobItems, nextItemId, billing, estimate, estimateHistory,
                   invoices, payments, reqs, now>>
    /\ UNCHANGED extVars

----------------------------------------------------------------------------
(* Job items and billing *)

addJobItem(quantity, unitPrice, discount) ==
    /\ nextItemId <= MaxItems
    /\ LET item == [id |-> nextItemId,
                    quantity |-> Max(1, quantity),
                    unitPrice |-> Max(0, unitPrice),
                    discount |-> Min(Max(discount, 0), 100),
                    total |-> LineTotal(quantity, unitPrice, discount),
                    isApproved |-> FALSE]
       IN  /\ jobItems' = Append(jobItems, item)
           /\ nextItemId' = nextItemId + 1
           /\ billing' = calculateBilling(billing, jobItems', FALSE)
    /\ IF status \in {"inspection", "in-progress"}
       THEN updateStatus("awaiting-approval", Admin, "New items added for approval")
       ELSE UNCHANGED <<status, statusHistory>>
    /\ resp' = Ok("addJobItem")
    /\ UNCHANGED <<assigned, estimate, estimateHistory, invoices, payments, reqs, now>>
    /\ UNCHANGED extVars

removeJobItem(itemId) ==
    /\ IF \E i \in 1..Len(jobItems) : jobItems[i].id = itemId
       THEN /\ jobItems' = SelectSeq(jobItems, LAMBDA it : it.id # itemId)
            /\ billing' = calculateBilling(billing, jobItems', FALSE)
            /\ resp' = Ok("removeJobItem")
       ELSE /\ resp' = Err("removeJobItem", "notFound", "itemNotFound")
            /\ UNCHANGED <<jobItems, billing>>
    /\ UNCHANGED <<status, statusHistory, assigned, nextItemId, estimate, estimateHistory,
                   invoices, payments, reqs, now>>
    /\ UNCHANGED extVars

\* discount, discountReason and taxRate are each optional
updateBilling(discount, discountReason, taxRate) ==
    /\ LET b1 == IF discount # Null THEN [billing EXCEPT !.discount = discount] ELSE billing
           b2 == IF discountReason # None /\ discountReason # ""
                 THEN [b1 EXCEPT !.discountReason = discountReason] ELSE b1
           b3 == IF taxRate # Null THEN [b2 EXCEPT !.taxRate = taxRate] ELSE b2
       IN  billing' = calculateBilling(b3, jobItems, FALSE)
    /\ resp' = Ok("updateBilling")
    /\ UNCHANGED <<status, statusHistory, assigned, jobItems, nextItemId, estimate,
                   estimateHistory, invoices, payments, reqs, now>>
    /\ UNCHANGED extVars

approveJobItems(itemIds) ==
    /\ IF status # "awaiting-approval"
       THEN /\ resp' = Err("approveJobItems", "notFound", "notAwaitingApproval")
            /\ UNCHANGED <<status, statusHistory, jobItems, billing>>
       ELSE /\ jobItems' = [i \in 1..Len(jobItems) |->
                              IF jobItems[i].id \in itemIds
                              THEN [jobItems[i] EXCEPT !.isApproved = TRUE]
                              ELSE jobItems[i]]
            /\ billing' = calculateBilling(billing, jobItems', TRUE)
            /\ IF \A i \in 1..Len(jobItems') : jobItems'[i].isApproved
               THEN updateStatus("approved", Customer, "All items approved by customer")
               ELSE UNCHANGED <<status, statusHistory>>
            /\ resp' = Ok("approveJobItems")
    /\ UNCHANGED <<assigned, nextItemId, estimate, estimateHistory, invoices, payments,
                   reqs, now>>
    /\ UNCHANGED extVars

\* getJobCard and getJobCardById: maybeRecalculateBilling recomputes and saves
\* the billing when priced items stand against a grand total of zero
getJobCard ==
    /\ IF (\E i \in 1..Len(jobItems) : jobItems[i].total > 0) /\ billing.grandTotal <= 0
       THEN billing' = calculateBilling(billing, jobItems, FALSE)
       ELSE UNCHANGED billing
    /\ resp' = Ok("getJobCard")
    /\ UNCHANGED <<status, statusHistory, assigned, jobItems, nextItemId, estimate,
                   estimateHistory, invoices, payments, reqs, now>>
    /\ UNCHANGED extVars

\* coupon.calculateDiscount(orderAmount) of a flat coupon: its value, at most
\* the order amount
calculateDiscount(code, orderAmount) ==
    Min(IF code = "SAVE40" THEN 40 ELSE 10, orderAmount)

\* what document.save() stores: the paths whose value differs from the one loaded
SaveModified(stored, loaded, changed) ==
    [f \in DOMAIN stored |-> IF changed[f] # loaded[f] THEN changed[f] ELSE stored[f]]

\* the coupons' usageLimit.total (-1: unlimited), usageLimit.perUser and
\* minInvoiceAmount
UsageLimit(code) ==
    IF code = "SAVE40" THEN [total |-> 2, perUser |-> 3, minInvoiceAmount |-> 50]
    ELSE [total |-> 0 - 1, perUser |-> 1, minInvoiceAmount |-> 0]

\* coupon.canBeUsedBy(customerId, orderAmount): the reason of the first check
\* that fails, None when all pass; `active` stands for isActive and the
\* validity window, u for the usage counters the check reads
canBeUsedBy(code, u, orderAmount, active) ==
    IF ~active THEN "notActive"
    ELSE IF orderAmount < UsageLimit(code).minInvoiceAmount THEN "minAmount"
    ELSE IF UsageLimit(code).total # 0 - 1 /\ u.usedCount >= UsageLimit(code).total
    THEN "totalLimit"
    ELSE IF u.perUser >= UsageLimit(code).perUser THEN "perUserLimit"
    ELSE None

\* coupon.recordUsage(customerId, jobCardId, discountAmount)
recordUsage(u) == [usedCount |-> u.usedCount + 1, perUser |-> u.perUser + 1]

\* the discount as applyCoupon writes it on the job card it loaded
AttachCoupon(b, items, code) ==
    LET b0 == calculateBilling(b, items, FALSE)
        discountAmount == calculateDiscount(code, b0.subtotal)
        b1 == [b0 EXCEPT !.discount = discountAmount,
                         !.discountReason = "COUPON:" \o code,
                         !.coupon = code]
    IN  calculateBilling(b1, items, FALSE)

\* the checks of applyCoupon without its call of canBeUsedBy
CouponErrorUnchecked(b, items, code, u, active) ==
    IF b.coupon # "" /\ b.coupon # code THEN "couponAlreadyApplied" ELSE None

\* the checks of applyCoupon before its first write; None when they pass
CouponError(b, items, code, u, active) ==
    IF b.coupon # "" /\ b.coupon # code THEN "couponAlreadyApplied"
    ELSE canBeUsedBy(code, u, calculateBilling(b, items, FALSE).subtotal, active)

\* applyCoupon, run to its end
applyCoupon(code, usable) ==
    /\ \A c \in CallIds : calls[c].pc = "idle"
    /\ LET error == CouponError(billing, jobItems, code, usage[code], usable)
       IN  IF error # None
           THEN /\ resp' = Err("applyCoupon", "badRequest", error)
                /\ UNCHANGED <<billing, usage>>
           ELSE /\ billing' = AttachCoupon(billing, jobItems, code)
                /\ usage' = [usage EXCEPT ![code] = recordUsage(@)]
                /\ resp' = Ok("applyCoupon")
    /\ UNCHANGED <<status, statusHistory, assigned, jobItems, nextItemId, estimate,
                   estimateHistory, invoices, payments, reqs, now>>
    /\ UNCHANGED <<advance, refunds, effects, calls>>
    /\ UNCHANGED <<created, insuranceJob>>

\* applyCoupon, first step: Coupon.findOne, JobCard.findOne and the checks
couponLoad(c, code, usable) ==
    /\ calls[c].pc = "idle"
    /\ LET error == CouponError(billing, jobItems, code, usage[code], usable)
       IN  IF error # None
           THEN /\ resp' = Err("applyCoupon", "badRequest", error)
                /\ UNCHANGED calls
           ELSE /\ calls' = [calls EXCEPT ![c] =
                     [op |-> "applyCoupon", pc |-> "save", id |-> 0, order |-> "",
                      key |-> code, sig |-> <<>>, amount |-> usage[code].usedCount,
                      doc |-> [billing |-> billing, items |-> jobItems]]]
                /\ UNCHANGED resp
    /\ UNCHANGED <<jobVars, invoices, payments, reqs, now, usage, advance, refunds,
                   effects>>
    /\ UNCHANGED <<created, insuranceJob>>

\* applyCoupon, second step: jobCard.save() of the loaded job card
couponSave(c) ==
    /\ calls[c].op = "applyCoupon" /\ calls[c].pc = "save"
    /\ billing' = SaveModified(billing, calls[c].doc.billing,
                               AttachCoupon(calls[c].doc.billing, calls[c].doc.items,
                                            calls[c].key))
    /\ calls' = [calls EXCEPT ![c].pc = "record"]
    /\ UNCHANGED <<status, statusHistory, assigned, jobItems, nextItemId, estimate,
                   estimateHistory, invoices, payments, reqs, now, resp>>
    /\ UNCHANGED <<usage, advance, refunds, effects>>
    /\ UNCHANGED <<created, insuranceJob>>

\* applyCoupon, last step: coupon.recordUsage and the response
couponRecord(c) ==
    /\ calls[c].op = "applyCoupon" /\ calls[c].pc = "record"
    /\ usage' = [usage EXCEPT ![calls[c].key] = recordUsage(@)]
    /\ resp' = Ok("applyCoupon")
    /\ calls' = [calls EXCEPT ![c] = IdleCall]
    /\ UNCHANGED <<jobVars, invoices, payments, reqs, now, advance, refunds, effects>>
    /\ UNCHANGED <<created, insuranceJob>>

----------------------------------------------------------------------------
(* Estimates *)

NormalizeEstimateItem(item) ==
    [quantity |-> Max(1, item.quantity),
     unitPrice |-> Max(0, item.unitPrice),
     discount |-> Min(Max(item.discount, 0), 100),
     total |-> LineTotal(item.quantity, item.unitPrice, item.discount)]

\* the estimate built by createOrUpdateEstimate from the request body
NewEstimate(version, items, discountAmount, discountReason, taxRate, expiresAt) ==
    LET normalizedItems == [i \in 1..Len(items) |-> NormalizeEstimateItem(items[i])]
        subtotal == round2(SumTotals(normalizedItems), 1)
        discount == Max(0, discountAmount)
        afterDiscount == Max(0, subtotal - discount)
        tax == IF taxRate = Null THEN DefaultTaxRate ELSE taxRate
        taxAmount == round2(afterDiscount * tax, 100)
    IN  [version |-> version,
         status |-> "PENDING_APPROVAL",
         items |-> normalizedItems,
         subtotal |-> subtotal,
         discountAmount |-> discount,
         discountReason |-> discountReason,
         taxRate |-> tax,
         taxAmount |-> taxAmount,
         grandTotal |-> round2(afterDiscount + taxAmount, 1),
         expiresAt |-> expiresAt]

createOrUpdateEstimate(items, discountAmount, discountReason, taxRate, expiresAt) ==
    /\ IF estimate.status = "APPROVED"
       THEN /\ resp' = Err("createOrUpdateEstimate", "badRequest", "estimateApproved")
            /\ UNCHANGED <<status, statusHistory, billing, estimate>>
       ELSE IF status \in {"delivered", "cancelled"}
       THEN /\ resp' = Err("createOrUpdateEstimate", "badRequest", "jobClosed")
            /\ UNCHANGED <<status, statusHistory, billing, estimate>>
       ELSE LET newVersion == estimate.version + 1
                isRevision == estimate # NoEstimate
                e == NewEstimate(newVersion, items, discountAmount, discountReason,
                                 taxRate, expiresAt)
            IN  /\ newVersion <= MaxVersion
                /\ \/ /\ IF status \in {"created", "inspection"}
                         THEN updateStatusShifted(Admin,
                                  IF isRevision THEN "Revised estimate sent to customer"
                                                ELSE "Estimate sent to customer",
                                  "awaiting-approval")
                         ELSE UNCHANGED <<status, statusHistory>>
                      /\ estimate' = e
                      /\ resp' = Ok("createOrUpdateEstimate")
                      /\ UNCHANGED billing
                   \/ /\ status \in {"created", "inspection"}
                      /\ StatusRefused("createOrUpdateEstimate")
    /\ UNCHANGED <<assigned, jobItems, nextItemId, estimateHistory, invoices,
                   payments, reqs, now>>
    /\ UNCHANGED extVars

\* the copy without the tax amount
CopyEstimateWithoutTax(b, e) ==
    IF e.grandTotal > 0
    THEN [b EXCEPT !.subtotal = e.subtotal,
                   !.discount = e.discountAmount,
                   !.discountReason = e.discountReason,
                   !.taxRate = e.taxRate,
                   !.grandTotal = e.grandTotal]
    ELSE b

\* "Copy estimate to billing for actual invoicing"
CopyEstimateToBilling(b, e) ==
    IF e.grandTotal > 0
    THEN [b EXCEPT !.subtotal = e.subtotal,
                   !.discount = e.discountAmount,
                   !.discountReason = e.discountReason,
                   !.taxRate = e.taxRate,
                   !.taxAmount = e.taxAmount,
                   !.grandTotal = e.grandTotal]
    ELSE b

\* the checks without the one for an estimate already reviewed
EstimateReviewErrorNoStatus(checkExpiry) ==
    IF estimate = NoEstimate THEN <<"notFound", "noEstimate">>
    ELSE IF status \notin {"inspection", "awaiting-approval"} THEN <<"badRequest", "wrongStage">>
    ELSE IF checkExpiry /\ estimate.expiresAt # Null /\ now > estimate.expiresAt
         THEN <<"badRequest", "expired">>
    ELSE <<None, None>>

\* the checks approveEstimate and rejectEstimate make before they write
EstimateReviewError(checkExpiry) ==
    IF estimate = NoEstimate THEN <<"notFound", "noEstimate">>
    ELSE IF estimate.status # "PENDING_APPROVAL" THEN <<"badRequest", "alreadyReviewed">>
    ELSE IF status \notin {"inspection", "awaiting-approval"} THEN <<"badRequest", "wrongStage">>
    ELSE IF checkExpiry /\ estimate.expiresAt # Null /\ now > estimate.expiresAt
         THEN <<"badRequest", "expired">>
    ELSE <<None, None>>

approveEstimate ==
    /\ LET e == EstimateReviewError(TRUE)
       IN  IF e[1] # None
           THEN /\ resp' = Err("approveEstimate", e[1], e[2])
                /\ UNCHANGED <<status, statusHistory, billing, estimate>>
           ELSE \/ /\ estimate' = [estimate EXCEPT !.status = "APPROVED"]
                   /\ updateStatusShifted(Customer, "Customer approved cost estimate",
                                          "approved")
                   /\ billing' = CopyEstimateToBilling(billing, estimate)
                   /\ resp' = Ok("approveEstimate")
                \/ StatusRefused("approveEstimate")
    /\ UNCHANGED <<assigned, jobItems, nextItemId, estimateHistory, invoices, payments,
                   reqs, now>>
    /\ UNCHANGED extVars

rejectEstimate ==
    /\ LET e == EstimateReviewError(FALSE)
       IN  IF e[1] # None
           THEN /\ resp' = Err("rejectEstimate", e[1], e[2])
                /\ UNCHANGED <<estimate, estimateHistory>>
           ELSE /\ estimate' = [estimate EXCEPT !.status = "REJECTED"]
                /\ estimateHistory' = Append(estimateHistory, estimate')
                /\ resp' = Ok("rejectEstimate")
    /\ UNCHANGED <<status, statusHistory, assigned, jobItems, nextItemId, billing,
                   invoices, payments, reqs, now>>
    /\ UNCHANGED extVars

----------------------------------------------------------------------------
(* Invoices *)

\* the hook stamping paidAt at every save of a paid invoice
PreSaveRestamps(inv, t) ==
    LET balanced == [inv EXCEPT !.balanceAmount = Max(0, inv.grandTotal - inv.paidAmount)]
    IN  IF balanced.status # "CANCELLED" /\ balanced.status # "REFUNDED"
        THEN IF balanced.paidAmount >= balanced.grandTotal
             THEN [balanced EXCEPT !.status = "PAID", !.paidAt = t]
             ELSE IF balanced.paidAmount > 0
             THEN [balanced EXCEPT !.status = "PARTIALLY_PAID"]
             ELSE balanced
        ELSE balanced

\* invoiceSchema.pre("save"), after the invoice number: balance, status, paidAt
PreSave(inv, t) ==
    LET balanced == [inv EXCEPT !.balanceAmount = Max(0, inv.grandTotal - inv.paidAmount)]
    IN  IF balanced.status # "CANCELLED" /\ balanced.status # "REFUNDED"
        THEN IF balanced.paidAmount >= balanced.grandTotal
             THEN [balanced EXCEPT !.status = "PAID",
                                   !.paidAt = IF balanced.paidAt = Null THEN t
                                              ELSE balanced.paidAt]
             ELSE IF balanced.paidAmount > 0
             THEN [balanced EXCEPT !.status = "PARTIALLY_PAID"]
             ELSE balanced
        ELSE balanced

\* jobCard.billing?.taxRate || 18
InvoiceTaxRate(b) == IF b.taxRate = 0 THEN DefaultTaxRate ELSE b.taxRate

\* the document createFromJobCard builds from the job card it was given;
\* cgstAmount, sgstAmount and the items' taxAmount are not rounded by the code:
\* they are kept here as numerators over 200 and over 100
NewInvoice(b, items, number, t) ==
    [invoiceNumber |-> number,
     items |-> [i \in 1..Len(items) |->
                  [quantity |-> items[i].quantity,
                   unitPrice |-> items[i].unitPrice,
                   discount |-> items[i].discount,
                   taxRate |-> InvoiceTaxRate(b),
                   taxAmountX100 |-> items[i].total * InvoiceTaxRate(b),
                   total |-> items[i].total]],
     subtotal |-> b.subtotal,
     discount |-> b.discount,
     discountReason |-> b.discountReason,
     taxableAmount |-> b.subtotal - b.discount,
     taxRateX2 |-> InvoiceTaxRate(b),
     cgstAmountX200 |-> (b.subtotal - b.discount) * InvoiceTaxRate(b),
     sgstAmountX200 |-> (b.subtotal - b.discount) * InvoiceTaxRate(b),
     totalTax |-> b.taxAmount,
     grandTotal |-> b.grandTotal,
     paidAmount |-> 0,
     balanceAmount |-> 0,
     status |-> "ISSUED",
     paidAt |-> Null]

\* the schema's min: 0 validators, run by save() before the pre-save hook
InvoiceValid(inv) ==
    /\ inv.subtotal >= 0
    /\ inv.discount >= 0
    /\ inv.taxableAmount >= 0
    /\ inv.totalTax >= 0
    /\ inv.grandTotal >= 0
    /\ inv.paidAmount >= 0
    /\ \A i \in 1..Len(inv.items) : inv.items[i].total >= 0

ActiveInvoices(excluded) ==
    {i \in 1..Len(invoices) : invoices[i].status \notin excluded}

\* a request starts: generateInvoiceFromJobCard reads the job card (lean)
genLoad(r) ==
    /\ reqs[r].pc = "idle"
    /\ reqs' = [reqs EXCEPT ![r] = [kind |-> "generate", pc |-> "check",
                                    billing |-> billing, items |-> jobItems, num |-> 0]]
    /\ UNCHANGED <<jobVars, invoices, payments, now, resp>>
    /\ UNCHANGED extVars

\* Invoice.findOne({ jobCard, status: { $nin: ["CANCELLED"] } }) and the billing check
genCheck(r) ==
    /\ reqs[r].kind = "generate" /\ reqs[r].pc = "check"
    /\ IF ActiveInvoices({"CANCELLED"}) # {}
       THEN /\ resp' = Err("generateInvoiceFromJobCard", "badRequest", "invoiceExists")
            /\ reqs' = [reqs EXCEPT ![r] = IdleReq]
       ELSE IF reqs[r].billing.grandTotal = 0
       THEN /\ resp' = Err("generateInvoiceFromJobCard", "badRequest", "noBilling")
            /\ reqs' = [reqs EXCEPT ![r] = IdleReq]
       ELSE /\ reqs' = [reqs EXCEPT ![r].pc = "count"]
            /\ UNCHANGED resp
    /\ UNCHANGED <<jobVars, invoices, payments, now>>
    /\ UNCHANGED extVars

\* getInvoiceByJobCard up to its call of createFromJobCard: the lookup of an
\* issued invoice, then the job card with its billing fallbacks (each saved)
getInvoiceLookup(r) ==
    /\ reqs[r].pc = "idle"
    /\ IF ActiveInvoices({"DRAFT", "CANCELLED"}) # {}
       THEN /\ resp' = Ok("getInvoiceByJobCard")
            /\ UNCHANGED <<reqs, jobItems, billing>>
       ELSE IF status = "cancelled"
       THEN /\ resp' = Err("getInvoiceByJobCard", "badRequest", "jobCancelled")
            /\ UNCHANGED <<reqs, jobItems, billing>>
       ELSE LET hasPricedItems == \E i \in 1..Len(jobItems) : jobItems[i].total > 0
                b1 == IF hasPricedItems /\ billing.grandTotal <= 0
                      THEN calculateBilling(billing, jobItems, FALSE) ELSE billing
                useEstimate == b1.grandTotal <= 0 /\ estimate.grandTotal > 0
                items1 == IF useEstimate /\ jobItems = <<>>
                          THEN [i \in 1..Len(estimate.items) |->
                                  [id |-> nextItemId + i - 1,
                                   quantity |-> estimate.items[i].quantity,
                                   unitPrice |-> estimate.items[i].unitPrice,
                                   discount |-> estimate.items[i].discount,
                                   total |-> estimate.items[i].total,
                                   isApproved |-> TRUE]]
                          ELSE jobItems
                b2 == IF useEstimate
                      THEN [b1 EXCEPT !.subtotal = estimate.subtotal,
                                      !.discount = estimate.discountAmount,
                                      !.discountReason = estimate.discountReason,
                                      !.taxRate = estimate.taxRate,
                                      !.taxAmount = estimate.taxAmount,
                                      !.grandTotal = estimate.grandTotal]
                      ELSE b1
            IN  /\ billing' = b2
                /\ jobItems' = items1
                /\ IF b2.grandTotal <= 0
                   THEN /\ resp' = Err("getInvoiceByJobCard", "badRequest", "notAvailable")
                        /\ UNCHANGED reqs
                   ELSE /\ reqs' = [reqs EXCEPT ![r] =
                                      [kind |-> "get", pc |-> "count", billing |-> b2,
                                       items |-> items1, num |-> 0]]
                        /\ UNCHANGED resp
    /\ nextItemId' = nextItemId + (Len(jobItems') - Len(jobItems))
    /\ UNCHANGED <<status, statusHistory, assigned, estimate, estimateHistory, invoices,
                   payments, now>>
    /\ UNCHANGED extVars

OpName(r) == IF reqs[r].kind = "get" THEN "getInvoiceByJobCard"
             ELSE "generateInvoiceFromJobCard"

\* createFromJobCard, first half: save() validates, then the pre-save hook
\* counts this month's invoices for the invoice number
createFromJobCardCount(r) ==
    /\ reqs[r].pc = "count"
    /\ IF InvoiceValid(NewInvoice(reqs[r].billing, reqs[r].items, 0, now))
       THEN /\ reqs' = [reqs EXCEPT ![r].pc = "insert", ![r].num = Len(invoices) + 1]
            /\ UNCHANGED resp
       ELSE /\ reqs' = [reqs EXCEPT ![r] = IdleReq]
            /\ resp' = Err(OpName(r), "internal", "validation")
    /\ UNCHANGED <<jobVars, invoices, payments, now>>
    /\ UNCHANGED extVars

\* createFromJobCard, second half: the insert, under the unique index on invoiceNumber
createFromJobCardInsert(r) ==
    /\ reqs[r].pc = "insert"
    /\ Len(invoices) < MaxInvoices
    /\ IF \E i \in 1..Len(invoices) : invoices[i].invoiceNumber = reqs[r].num
       THEN /\ resp' = Err(OpName(r), "internal", "duplicateKey")
            /\ UNCHANGED invoices
       ELSE /\ invoices' = Append(invoices,
                 PreSave(NewInvoice(reqs[r].billing, reqs[r].items, reqs[r].num, now), now))
            /\ resp' = Ok(OpName(r))
    /\ reqs' = [reqs EXCEPT ![r] = IdleReq]
    /\ UNCHANGED <<jobVars, payments, now>>
    /\ UNCHANGED extVars

cancelInvoice(i) ==
    /\ i \in 1..Len(invoices)
    /\ IF invoices[i].status = "PAID" \/ invoices[i].paidAmount > 0
       THEN /\ resp' = Err("cancelInvoice", "badRequest", "hasPayments")
            /\ UNCHANGED invoices
       ELSE /\ invoices' = [invoices EXCEPT ![i] =
                 PreSave([invoices[i] EXCEPT !.status = "CANCELLED"], now)]
            /\ resp' = Ok("cancelInvoice")
    /\ UNCHANGED <<jobVars, payments, reqs, now>>
    /\ UNCHANGED extVars

----------------------------------------------------------------------------
(* Payments *)

\* the reconciliation taking the grand total from the job card's billing as well
updateInvoicePaymentStatusRetotal(invs, ps, t) ==
    LET open == {i \in 1..Len(invs) : invs[i].status \notin {"CANCELLED", "REFUNDED"}}
    IN  IF open = {} THEN invs
        ELSE LET i == CHOOSE k \in open : \A j \in open : k <= j
             IN  [invs EXCEPT ![i] = PreSave([invs[i] EXCEPT !.paidAmount = SumCompleted(ps),
                                                            !.grandTotal = billing.grandTotal],
                                             t)]

\* updateInvoicePaymentStatus(jobCardId), given the payments as they then are
updateInvoicePaymentStatus(invs, ps, t) ==
    LET open == {i \in 1..Len(invs) : invs[i].status \notin {"CANCELLED", "REFUNDED"}}
    IN  IF open = {} THEN invs
        ELSE LET i == CHOOSE k \in open : \A j \in open : k <= j
             IN  [invs EXCEPT ![i] = PreSave([invs[i] EXCEPT !.paidAmount = SumCompleted(ps)], t)]

\* a payment recorded against the job card by the payment controller, which
\* then calls updateInvoicePaymentStatus
recordPayment(amount) ==
    /\ Len(payments) < MaxPayments
    /\ payments' = Append(payments, [amount |-> amount, status |-> "completed",
                                     transactionId |-> "cash", invoiceId |-> 0,
                                     orderId |-> "", signature |-> <<>>])
    /\ invoices' = updateInvoicePaymentStatus(invoices, payments', now)
    /\ resp' = Ok("recordPayment")
    /\ UNCHANGED <<jobVars, reqs, now>>
    /\ UNCHANGED extVars

\* a catch block that throws the error it caught
PropagatesAlways(failed) == failed

\* try { ... } catch (error) { console.error(...) } around a side effect:
\* whether its failure reaches the caller
Propagates(failed) == FALSE

\* a side effect attempted: it got through, or it threw and was logged
Attempt(e, name, sent) ==
    IF sent THEN [e EXCEPT !.notices = @ \cup {name}]
    ELSE [e EXCEPT !.failed = @ \cup {name}]

\* the response of a handler whose last act was a side effect
Answer(op, failed) ==
    IF Propagates(failed) THEN Err(op, "internal", "sideEffect") ELSE Ok(op)

\* crypto.createHmac("sha256", key).update(body).digest("hex"): a value that
\* is the same only for the same key and the same body
Hmac(key, body) == <<key, body>>

\* process.env.RAZORPAY_KEY_SECRET
KeySecret == "key_secret"

\* the signature check answering yes to whatever it is shown
verifyPaymentSignatureAny(orderId, paymentId, signature) == TRUE

\* razorpayService.verifyPaymentSignature
verifyPaymentSignature(orderId, paymentId, signature) ==
    Hmac(KeySecret, <<orderId, "|", paymentId>>) = signature

\* the signatures a request may carry: the gateway's, one made with another
\* key, one made for another payment, and none
Signatures ==
    { Hmac(KeySecret, <<"order_1", "|", "pay_1">>),
      Hmac("forged", <<"order_1", "|", "pay_1">>),
      Hmac(KeySecret, <<"order_1", "|", "pay_2">>),
      <<>> }

\* the checks of verifyPayment before its first write; None when they pass
VerifyError(orderId, paymentId, signature, fetched) ==
    IF orderId = "" \/ paymentId = "" \/ signature = <<>> THEN "missingDetails"
    ELSE IF ~verifyPaymentSignature(orderId, paymentId, signature)
    THEN "verificationFailed"
    ELSE IF ~fetched THEN "fetchFailed"
    ELSE None

\* the Payment document verifyPayment creates
NewPayment(i, orderId, paymentId, signature, amount) ==
    [amount |-> amount, status |-> "completed", transactionId |-> paymentId,
     invoiceId |-> i, orderId |-> orderId, signature |-> signature]

\* the invoice as verifyPayment saves it, from the document it loaded
PaidInvoice(loaded, amount, t) ==
    PreSave([loaded EXCEPT !.paidAmount = loaded.paidAmount + amount], t)

\* verifyPayment of invoice i, run to its end: the gateway reports `amount`
\* for paymentId; `fetched` says whether the gateway answered
verifyPayment(i, orderId, paymentId, signature, fetched, amount) ==
    /\ i \in 1..Len(invoices)
    /\ \A c \in CallIds : calls[c].pc = "idle"
    /\ LET error == VerifyError(orderId, paymentId, signature, fetched)
       IN  IF error # None
           THEN /\ resp' = Err("verifyPayment",
                               IF error = "fetchFailed" THEN "internal" ELSE "badRequest",
                               error)
                /\ UNCHANGED <<invoices, payments, effects>>
           ELSE /\ Len(payments) < MaxPayments
                /\ payments' = Append(payments,
                                    NewPayment(i, orderId, paymentId, signature, amount))
                /\ invoices' = [invoices EXCEPT ![i] =
                     SaveModified(invoices[i], invoices[i],
                                  PaidInvoice(invoices[i], amount, now))]
                /\ effects' = [effects EXCEPT !.notices = @ \cup {paymentId}]
                /\ resp' = Ok("verifyPayment")
    /\ UNCHANGED <<jobVars, reqs, now, usage, advance, refunds, calls>>
    /\ UNCHANGED <<created, insuranceJob>>

\* verifyPayment, first step: the checks, Invoice.findById and fetchPayment
verifyLoad(c, i, orderId, paymentId, signature, fetched, amount) ==
    /\ calls[c].pc = "idle"
    /\ i \in 1..Len(invoices)
    /\ LET error == VerifyError(orderId, paymentId, signature, fetched)
       IN  IF error # None
           THEN /\ resp' = Err("verifyPayment",
                               IF error = "fetchFailed" THEN "internal" ELSE "badRequest",
                               error)
                /\ UNCHANGED calls
           ELSE /\ calls' = [calls EXCEPT ![c] =
                     [op |-> "verifyPayment", pc |-> "create", id |-> i,
                      order |-> orderId, key |-> paymentId, sig |-> signature,
                      amount |-> amount, doc |-> invoices[i]]]
                /\ UNCHANGED resp
    /\ UNCHANGED <<jobVars, invoices, payments, reqs, now, usage, advance, refunds,
                   effects>>
    /\ UNCHANGED <<created, insuranceJob>>

\* verifyPayment, second step: Payment.create
verifyCreate(c) ==
    /\ calls[c].op = "verifyPayment" /\ calls[c].pc = "create"
    /\ Len(payments) < MaxPayments
    /\ payments' = Append(payments, NewPayment(calls[c].id, calls[c].order, calls[c].key,
                                               calls[c].sig, calls[c].amount))
    /\ calls' = [calls EXCEPT ![c].pc = "save"]
    /\ UNCHANGED <<jobVars, invoices, reqs, now, resp, usage, advance, refunds, effects>>
    /\ UNCHANGED <<created, insuranceJob>>

\* verifyPayment, third step: invoice.save() of the loaded document
verifySave(c) ==
    /\ calls[c].op = "verifyPayment" /\ calls[c].pc = "save"
    /\ invoices' = [invoices EXCEPT ![calls[c].id] =
         SaveModified(invoices[calls[c].id], calls[c].doc,
                      PaidInvoice(calls[c].doc, calls[c].amount, now))]
    /\ calls' = [calls EXCEPT ![c].pc = "notify"]
    /\ UNCHANGED <<jobVars, payments, reqs, now, resp, usage, advance, refunds, effects>>
    /\ UNCHANGED <<created, insuranceJob>>

\* verifyPayment, last step: sendPaymentSuccess, which gets through or not,
\* and the response
verifyNotify(c, sent) ==
    /\ calls[c].op = "verifyPayment" /\ calls[c].pc = "notify"
    /\ effects' = Attempt(effects, calls[c].key, sent)
    /\ resp' = Answer("verifyPayment", ~sent)
    /\ calls' = [calls EXCEPT ![c] = IdleCall]
    /\ UNCHANGED <<jobVars, invoices, payments, reqs, now, usage, advance, refunds>>
    /\ UNCHANGED <<created, insuranceJob>>

\* Rs 1, the least amount createPaymentOrder accepts
MinimumPayment == 100

\* createPaymentOrder of invoice i as getWithPayments returns it (a lean
\* document: its paymentStatus is no path of the schema, its paidAmount is the
\* total of the job card's completed payments); amount 0 asks for the balance
createPaymentOrder(i, amount, ordered) ==
    /\ i \in 1..Len(invoices)
    /\ LET balanceAmount == invoices[i].grandTotal - SumCompleted(payments)
           asked == IF amount <= 0 THEN balanceAmount ELSE amount
       IN  resp' = IF invoices[i].status \in {"CANCELLED", "REFUNDED"}
                   THEN Err("createPaymentOrder", "badRequest", "cancelledOrRefunded")
                   ELSE IF asked > balanceAmount
                   THEN Err("createPaymentOrder", "badRequest", "exceedsBalance")
                   ELSE IF asked < MinimumPayment
                   THEN Err("createPaymentOrder", "badRequest", "minimumAmount")
                   ELSE IF ~ordered
                   THEN Err("createPaymentOrder", "internal", "orderFailed")
                   ELSE Ok("createPaymentOrder")
    /\ UNCHANGED <<jobVars, invoices, payments, reqs, now>>
    /\ UNCHANGED extVars

----------------------------------------------------------------------------
(* The advanced payment ledger and refunds *)

\* the methods createInvoicePayment accepts
PaymentMethods == {"CASH", "RAZORPAY"}

\* computeStatus(payment)
computeStatus(payment) ==
    LET balance == Max(payment.totalAmount - payment.paidAmount, 0)
        p == [payment EXCEPT !.balanceAmount = balance]
    IN  IF p.paymentStatus = "REFUNDED" THEN p
        ELSE IF balance <= 0 THEN [p EXCEPT !.paymentStatus = "PAID"]
        ELSE [p EXCEPT !.paymentStatus = "PARTIAL"]

\* createInvoicePayment; the model follows the first payment it creates
createInvoicePayment(totalAmount, paymentMethod) ==
    /\ ~advance.exists
    /\ advance' = [exists |-> TRUE, totalAmount |-> totalAmount, paidAmount |-> 0,
                   balanceAmount |-> totalAmount, paymentStatus |-> "PARTIAL",
                   status |-> "pending", paymentMethod |-> paymentMethod,
                   transactionId |-> "", transactions |-> <<>>]
    /\ resp' = Ok("createInvoicePayment")
    /\ UNCHANGED <<jobVars, invoices, payments, reqs, now, usage, refunds, effects, calls>>
    /\ UNCHANGED <<created, insuranceJob>>

\* a payment the gateway took in full, as the payment controller records it
recordGatewayPayment(amount, paymentId) ==
    /\ ~advance.exists
    /\ advance' = [exists |-> TRUE, totalAmount |-> amount, paidAmount |-> amount,
                   balanceAmount |-> 0, paymentStatus |-> "PAID",
                   status |-> "completed", paymentMethod |-> "razorpay",
                   transactionId |-> paymentId, transactions |-> <<amount>>]
    /\ resp' = Ok("recordGatewayPayment")
    /\ UNCHANGED <<jobVars, invoices, payments, reqs, now, usage, refunds, effects, calls>>
    /\ UNCHANGED <<created, insuranceJob>>

addTransaction(amount) ==
    /\ advance.exists
    /\ Len(advance.transactions) < MaxTransactions
    /\ LET pushed == [advance EXCEPT !.transactions = Append(@, amount),
                                     !.paidAmount = @ + amount]
           computed == computeStatus(pushed)
       IN  advance' = [computed EXCEPT !.status = IF computed.balanceAmount <= 0
                                                  THEN "completed" ELSE "pending"]
    /\ resp' = Ok("addTransaction")
    /\ UNCHANGED <<jobVars, invoices, payments, reqs, now, usage, refunds, effects, calls>>
    /\ UNCHANGED <<created, insuranceJob>>

markPaid ==
    /\ advance.exists
    /\ IF advance.balanceAmount <= 0
       THEN /\ resp' = Err("markPaid", "badRequest", "alreadySettled")
            /\ UNCHANGED advance
       ELSE /\ Len(advance.transactions) < MaxTransactions
            /\ LET balance == advance.balanceAmount
                   pushed == [advance EXCEPT !.transactions = Append(@, balance),
                                             !.paidAmount = @ + balance]
               IN  advance' = [computeStatus(pushed) EXCEPT !.status = "completed"]
            /\ resp' = Ok("markPaid")
    /\ UNCHANGED <<jobVars, invoices, payments, reqs, now, usage, refunds, effects, calls>>
    /\ UNCHANGED <<created, insuranceJob>>

requestRefund(requestedAmount) ==
    /\ advance.exists
    /\ IF requestedAmount > advance.paidAmount
       THEN /\ resp' = Err("requestRefund", "badRequest", "exceedsPaidAmount")
            /\ UNCHANGED <<advance, refunds>>
       ELSE /\ Len(refunds) < MaxRefunds
            /\ refunds' = Append(refunds, [requestedAmount |-> requestedAmount,
                                           status |-> "PENDING"])
            /\ advance' = [advance EXCEPT !.paymentStatus = "REFUND_PENDING"]
            /\ resp' = Ok("requestRefund")
    /\ UNCHANGED <<jobVars, invoices, payments, reqs, now, usage, effects, calls>>
    /\ UNCHANGED <<created, insuranceJob>>

approveRefund(k) ==
    /\ k \in 1..Len(refunds)
    /\ IF refunds[k].status # "PENDING"
       THEN /\ resp' = Err("approveRefund", "badRequest", "alreadyProcessed")
            /\ UNCHANGED refunds
       ELSE /\ refunds' = [refunds EXCEPT ![k].status = "APPROVED"]
            /\ resp' = Ok("approveRefund")
    /\ UNCHANGED <<jobVars, invoices, payments, reqs, now, usage, advance, effects, calls>>
    /\ UNCHANGED <<created, insuranceJob>>

rejectRefund(k) ==
    /\ k \in 1..Len(refunds)
    /\ IF refunds[k].status # "PENDING"
       THEN /\ resp' = Err("rejectRefund", "badRequest", "alreadyProcessed")
            /\ UNCHANGED refunds
       ELSE /\ refunds' = [refunds EXCEPT ![k].status = "REJECTED"]
            /\ resp' = Ok("rejectRefund")
    /\ UNCHANGED <<jobVars, invoices, payments, reqs, now, usage, advance, effects, calls>>
    /\ UNCHANGED <<created, insuranceJob>>

\* processRefund taking a refund in any status
RefundProcessableAlways(st) == TRUE

\* ["APPROVED", "PENDING"].includes(refund.status)
RefundProcessable(st) == st \in {"APPROVED", "PENDING"}

\* payment.paymentMethod === "razorpay", with a payment.transactionId
RefundsAtGateway(payment) ==
    payment.paymentMethod = "razorpay" /\ payment.transactionId # ""

\* processRefund, first step: the refund, its status check, and the payment
refundLoad(c, k) ==
    /\ calls[c].pc = "idle"
    /\ k \in 1..Len(refunds)
    /\ IF ~RefundProcessable(refunds[k].status)
       THEN /\ resp' = Err("processRefund", "badRequest", "cannotBeProcessed")
            /\ UNCHANGED calls
       ELSE /\ calls' = [calls EXCEPT ![c] =
                 [op |-> "processRefund",
                  pc |-> IF RefundsAtGateway(advance) THEN "gateway" ELSE "savePayment",
                  id |-> k, order |-> "", key |-> "", sig |-> <<>>,
                  amount |-> refunds[k].requestedAmount, doc |-> advance]]
            /\ UNCHANGED resp
    /\ UNCHANGED <<jobVars, invoices, payments, reqs, now, usage, advance, refunds,
                   effects>>
    /\ UNCHANGED <<created, insuranceJob>>

\* processRefund, second step: razorpay.payments.refund, which the gateway
\* does (done) or refuses
refundGateway(c, done) ==
    /\ calls[c].op = "processRefund" /\ calls[c].pc = "gateway"
    /\ effects' = [effects EXCEPT !.refunds =
                     Append(@, [amount |-> calls[c].amount, done |-> done])]
    /\ IF Propagates(~done)
       THEN /\ resp' = Err("processRefund", "internal", "sideEffect")
            /\ calls' = [calls EXCEPT ![c] = IdleCall]
       ELSE /\ calls' = [calls EXCEPT ![c].pc = "savePayment"]
            /\ UNCHANGED resp
    /\ UNCHANGED <<jobVars, invoices, payments, reqs, now, usage, advance, refunds>>
    /\ UNCHANGED <<created, insuranceJob>>

\* the payment as processRefund saves it, from the document it loaded
RefundedPayment(loaded, requestedAmount) ==
    LET computed == computeStatus([loaded EXCEPT !.paidAmount =
                                      Max(loaded.paidAmount - requestedAmount, 0)])
    IN  IF computed.paidAmount = 0 THEN [computed EXCEPT !.paymentStatus = "REFUNDED"]
        ELSE computed

\* processRefund, third step: payment.save()
refundSavePayment(c) ==
    /\ calls[c].op = "processRefund" /\ calls[c].pc = "savePayment"
    /\ advance' = SaveModified(advance, calls[c].doc,
                               RefundedPayment(calls[c].doc, calls[c].amount))
    /\ calls' = [calls EXCEPT ![c].pc = "saveRefund"]
    /\ UNCHANGED <<jobVars, invoices, payments, reqs, now, resp, usage, refunds, effects>>
    /\ UNCHANGED <<created, insuranceJob>>

\* processRefund, last step: refund.save() and the response
refundSaveRefund(c) ==
    /\ calls[c].op = "processRefund" /\ calls[c].pc = "saveRefund"
    /\ refunds' = [refunds EXCEPT ![calls[c].id].status = "PROCESSED"]
    /\ resp' = Ok("processRefund")
    /\ calls' = [calls EXCEPT ![c] = IdleCall]
    /\ UNCHANGED <<jobVars, invoices, payments, reqs, now, usage, advance, effects>>
    /\ UNCHANGED <<created, insuranceJob>>

----------------------------------------------------------------------------
(* Handlers that end with a notification, between their save and their answer *)

\* a request that has saved and is about to notify; key holds what it was asked
Notifying(op, key) == [IdleCall EXCEPT !.op = op, !.pc = "notify", !.key = key]

\* updateJobCard up to the save of the new status
statusSave(c, reqStatus, above) ==
    /\ calls[c].pc = "idle"
    /\ IF reqStatus # None /\ reqStatus # status
       THEN CASE DeliveredGuard(reqStatus, above) = "notReady" ->
                    /\ resp' = ErrStatus("updateJobCard", reqStatus, "badRequest",
                                         "notReady", 0)
                    /\ UNCHANGED <<status, statusHistory, calls>>
              [] DeliveredGuard(reqStatus, above) = "balanceDue" ->
                    /\ resp' = ErrStatus("updateJobCard", reqStatus, "badRequest", "balanceDue",
                                         balanceDue)
                    /\ UNCHANGED <<status, statusHistory, calls>>
              [] OTHER ->
                    /\ updateStatus(reqStatus, Admin, "Status changed")
                    /\ calls' = [calls EXCEPT ![c] = Notifying("updateJobCard", reqStatus)]
                    /\ UNCHANGED resp
       ELSE /\ resp' = OkStatus("updateJobCard", reqStatus)
            /\ UNCHANGED <<status, statusHistory, calls>>
    /\ UNCHANGED <<assigned, jobItems, nextItemId, billing, estimate, estimateHistory,
                   invoices, payments, reqs, now>>
    /\ UNCHANGED <<usage, advance, refunds, effects, created, insuranceJob>>

\* the notifications of a status update, in the order they are sent
StatusNotices(s) ==
    IF s = "ready" THEN <<"sendStatusUpdate", "sendVehicleReady">>
    ELSE <<"sendStatusUpdate">>

\* updateJobCard after its save: sendStatusUpdate and, for ready,
\* sendVehicleReady, of which the first `through` get through; then the answer
statusNotify(c, through) ==
    /\ calls[c].op = "updateJobCard" /\ calls[c].pc = "notify"
    /\ LET names == StatusNotices(calls[c].key)
           failed == through < Len(names)
       IN  /\ through <= Len(names)
           /\ effects' = [effects EXCEPT
                            !.notices = @ \cup {names[k] : k \in 1..through},
                            !.failed = @ \cup (IF failed THEN {names[through + 1]} ELSE {})]
           /\ resp' = [Answer("updateJobCard", failed) EXCEPT !.arg = calls[c].key]
    /\ calls' = [calls EXCEPT ![c] = IdleCall]
    /\ UNCHANGED <<jobVars, invoices, payments, reqs, now, usage, advance, refunds>>
    /\ UNCHANGED <<created, insuranceJob>>

\* createOrUpdateEstimate up to the save of the new estimate
estimateSave(c, items, discountAmount, discountReason, taxRate, expiresAt) ==
    /\ calls[c].pc = "idle"
    /\ IF estimate.status = "APPROVED"
       THEN /\ resp' = Err("createOrUpdateEstimate", "badRequest", "estimateApproved")
            /\ UNCHANGED <<status, statusHistory, billing, estimate, calls>>
       ELSE IF status \in {"delivered", "cancelled"}
       THEN /\ resp' = Err("createOrUpdateEstimate", "badRequest", "jobClosed")
            /\ UNCHANGED <<status, statusHistory, billing, estimate, calls>>
       ELSE LET newVersion == estimate.version + 1
                isRevision == estimate # NoEstimate
                e == NewEstimate(newVersion, items, discountAmount, discountReason,
                                 taxRate, expiresAt)
            IN  /\ newVersion <= MaxVersion
                /\ \/ /\ IF status \in {"created", "inspection"}
                         THEN updateStatusShifted(Admin,
                                  IF isRevision THEN "Revised estimate sent to customer"
                                                ELSE "Estimate sent to customer",
                                  "awaiting-approval")
                         ELSE UNCHANGED <<status, statusHistory>>
                      /\ estimate' = e
                      /\ calls' = [calls EXCEPT ![c] =
                                      Notifying("createOrUpdateEstimate", "")]
                      /\ UNCHANGED <<billing, resp>>
                   \/ /\ status \in {"created", "inspection"}
                      /\ StatusRefused("createOrUpdateEstimate")
                      /\ UNCHANGED calls
    /\ UNCHANGED <<assigned, jobItems, nextItemId, estimateHistory, invoices,
                   payments, reqs, now>>
    /\ UNCHANGED <<usage, advance, refunds, effects, created, insuranceJob>>

\* createOrUpdateEstimate after its save: sendEstimateApproval, then the answer
estimateNotify(c, sent) ==
    /\ calls[c].op = "createOrUpdateEstimate" /\ calls[c].pc = "notify"
    /\ effects' = Attempt(effects, "sendEstimateApproval", sent)
    /\ resp' = Answer("createOrUpdateEstimate", ~sent)
    /\ calls' = [calls EXCEPT ![c] = IdleCall]
    /\ UNCHANGED <<jobVars, invoices, payments, reqs, now, usage, advance, refunds>>
    /\ UNCHANGED <<created, insuranceJob>>

\* rejectEstimate up to the save of the rejected estimate
rejectSave(c) ==
    /\ calls[c].pc = "idle"
    /\ LET e == EstimateReviewError(FALSE)
       IN  IF e[1] # None
           THEN /\ resp' = Err("rejectEstimate", e[1], e[2])
                /\ UNCHANGED <<estimate, estimateHistory, calls>>
           ELSE /\ estimate' = [estimate EXCEPT !.status = "REJECTED"]
                /\ estimateHistory' = Append(estimateHistory, estimate')
                /\ calls' = [calls EXCEPT ![c] = Notifying("rejectEstimate", "")]
                /\ UNCHANGED resp
    /\ UNCHANGED <<status, statusHistory, assigned, jobItems, nextItemId, billing,
                   invoices, payments, reqs, now>>
    /\ UNCHANGED <<usage, advance, refunds, effects, created, insuranceJob>>

\* rejectEstimate after its save: the push to the admins, then the answer
rejectNotify(c, sent) ==
    /\ calls[c].op = "rejectEstimate" /\ calls[c].pc = "notify"
    /\ effects' = Attempt(effects, "sendToMultipleDevices", sent)
    /\ resp' = Answer("rejectEstimate", ~sent)
    /\ calls' = [calls EXCEPT ![c] = IdleCall]
    /\ UNCHANGED <<jobVars, invoices, payments, reqs, now, usage, advance, refunds>>
    /\ UNCHANGED <<created, insuranceJob>>

----------------------------------------------------------------------------
(* The status machine: every request runs to its end before the next *)

Next ==
    \/ \E s \in AdminStatuses, above \in BOOLEAN : updateJobCard(s, above)
    \/ \E ids \in SUBSET Mechanics : assignMechanics(ids)
    \/ \E m \in Mechanics, s \in MechanicStatuses, above \in BOOLEAN :
           updateAssignedJobCardStatus(m, s, above)
    \/ addJobItem(1, 106, 0)
    \/ approveJobItems(1..MaxItems)
    \/ createOrUpdateEstimate(OneItem, 0, "", Null, Null)
    \/ approveEstimate
    \/ \E a \in PayAmounts : recordPayment(a)

Spec == Init /\ [][Next]_vars

----------------------------------------------------------------------------
(* The writers of jobCard.billing, one request at a time *)

\* no invoice request is between its lookup and its insert
Quiet == \A r \in ReqIds : reqs[r].pc = "idle"

NextBilling ==
    \/ Quiet /\ addJobItem(1, 105, 50)
    \/ Quiet /\ \E id \in 1..MaxItems : removeJobItem(id)
    \/ Quiet /\ \E in \in BillingInputs : updateBilling(in[1], "goodwill", in[2])
    \/ Quiet /\ \E ids \in SUBSET (1..MaxItems) : approveJobItems(ids)
    \/ Quiet /\ \E c \in Coupons, usable \in BOOLEAN : applyCoupon(c, usable)
    \/ Quiet /\ getJobCard
    \/ Quiet /\ \E in \in BillingEstimateInputs :
                    createOrUpdateEstimate(in[1], in[2], in[3], in[4], in[5])
    \/ Quiet /\ approveEstimate
    \/ getInvoiceLookup(1)
    \/ createFromJobCardCount(1)
    \/ createFromJobCardInsert(1)

SpecBilling == Init /\ [][NextBilling]_vars

----------------------------------------------------------------------------
(* The estimate and its review, one request at a time *)

NextEstimate ==
    \/ \E in \in EstimateInputs :
           createOrUpdateEstimate(in[1], in[2], in[3], in[4], in[5])
    \/ approveEstimate
    \/ rejectEstimate
    \/ addJobItem(1, 105, 50)
    \/ \E ids \in SUBSET (1..MaxItems) : approveJobItems(ids)
    \/ updateJobCard("inspection", FALSE)
    \/ Tick

SpecEstimate == Init /\ [][NextEstimate]_vars

----------------------------------------------------------------------------
(* Invoice requests: two may be in flight at once, each between its awaits;
   every other request runs to its end in one step *)

NextInvoice ==
    \/ \E r \in ReqIds : genLoad(r)
    \/ \E r \in ReqIds : genCheck(r)
    \/ \E r \in ReqIds : getInvoiceLookup(r)
    \/ \E r \in ReqIds : createFromJobCardCount(r)
    \/ \E r \in ReqIds : createFromJobCardInsert(r)
    \/ \E i \in 1..MaxInvoices : cancelInvoice(i)
    \/ addJobItem(1, 105, 50)
    \/ updateBilling(40, "goodwill", Null)

SpecInvoice == Init /\ [][NextInvoice]_vars

----------------------------------------------------------------------------
(* The life of an invoice: issue, payments, cancellation, one request at a
   time while the clock runs *)

NextPayment ==
    \/ Quiet /\ addJobItem(1, 105, 50)
    \/ Quiet /\ updateBilling(40, "goodwill", Null)
    \/ genLoad(1)
    \/ genCheck(1)
    \/ createFromJobCardCount(1)
    \/ createFromJobCardInsert(1)
    \/ Quiet /\ \E i \in 1..MaxInvoices : cancelInvoice(i)
    \/ Quiet /\ recordPayment(62)
    \/ Quiet /\ \E i \in 1..MaxInvoices, key \in {KeySecret, "forged"} :
                    verifyPayment(i, "order_1", "pay_1",
                                  Hmac(key, <<"order_1", "|", "pay_1">>), TRUE, 63)
    \/ Quiet /\ Tick

SpecPayment == Init /\ [][NextPayment]_vars

----------------------------------------------------------------------------
(* Payment through the gateway: an invoice of Rs 2.50 is issued, orders are
   asked for, and payment verifications run side by side *)

\* razorpayPayment.amount, as the gateway has it for each payment id
GatewayAmount(paymentId) == IF paymentId = "pay_1" THEN 250 ELSE 100

Calm == \A c \in CallIds : calls[c].pc = "idle"

NextVerify ==
    \/ Quiet /\ Calm /\ addJobItem(2, 106, 0)
    \/ Calm /\ genLoad(1)
    \/ genCheck(1)
    \/ createFromJobCardCount(1)
    \/ createFromJobCardInsert(1)
    \/ Quiet /\ \E i \in 1..MaxInvoices, a \in {0, 100}, ordered \in BOOLEAN :
                    createPaymentOrder(i, a, ordered)
    \/ Quiet /\ \E c \in CallIds, i \in 1..MaxInvoices, p \in {"pay_1", "pay_2"},
                       sig \in Signatures, fetched \in BOOLEAN :
                    verifyLoad(c, i, "order_1", p, sig, fetched, GatewayAmount(p))
    \/ \E c \in CallIds : verifyCreate(c)
    \/ \E c \in CallIds : verifySave(c)
    \/ \E c \in CallIds : verifyNotify(c, TRUE)

SpecVerify == Init /\ [][NextVerify]_vars

----------------------------------------------------------------------------
(* Coupons: the customer applies codes to the job card, two requests at a time *)

NextCoupon ==
    \/ Calm /\ addJobItem(1, 105, 50)
    \/ \E c \in CallIds, code \in CouponCodes, usable \in BOOLEAN :
           couponLoad(c, code, usable)
    \/ \E c \in CallIds : couponSave(c)
    \/ \E c \in CallIds : couponRecord(c)

SpecCoupon == Init /\ [][NextCoupon]_vars

----------------------------------------------------------------------------
(* Refunds: an invoice of Rs 2.50 is issued and paid through the gateway,
   then a payment of the advanced ledger is created, paid, and refunded.  The
   invoice handlers and the ledger's handlers touch no common document, so
   the invoice's steps are taken first; one request runs at a time *)

RefundAmounts == {100}

InvoicePaid == \E i \in 1..Len(invoices) : invoices[i].status = "PAID"

NextRefund ==
    \/ Quiet /\ Calm /\ ~advance.exists /\ addJobItem(2, 106, 0)
    \/ Calm /\ ~advance.exists /\ genLoad(1)
    \/ genCheck(1)
    \/ createFromJobCardCount(1)
    \/ createFromJobCardInsert(1)
    \/ Quiet /\ ~InvoicePaid
             /\ \E i \in 1..MaxInvoices :
                    verifyLoad(1, i, "order_1", "pay_1",
                               Hmac(KeySecret, <<"order_1", "|", "pay_1">>), TRUE,
                               GatewayAmount("pay_1"))
    \/ verifyCreate(1)
    \/ verifySave(1)
    \/ verifyNotify(1, TRUE)
    \/ Quiet /\ Calm /\ InvoicePaid /\ createInvoicePayment(250, "RAZORPAY")
    \/ Quiet /\ Calm /\ InvoicePaid /\ recordGatewayPayment(250, "pay_1")
    \/ Calm /\ addTransaction(100)
    \/ Calm /\ markPaid
    \/ Calm /\ \E a \in RefundAmounts : requestRefund(a)
    \/ Calm /\ \E k \in 1..MaxRefunds : approveRefund(k)
    \/ Calm /\ \E k \in 1..MaxRefunds : rejectRefund(k)
    \/ \E k \in 1..MaxRefunds : refundLoad(1, k)
    \/ \E done \in BOOLEAN : refundGateway(1, done)
    \/ refundSavePayment(1)
    \/ refundSaveRefund(1)

SpecRefund == Init /\ [][NextRefund]_vars

----------------------------------------------------------------------------
(* Requests that may be refused: job cards, status changes, estimate
   reviews, coupons and invoices, one request at a time *)

NextFailure ==
    \/ Quiet /\ \E found \in BOOLEAN, ids \in {{}, {"mech"}, {"mech", "stranger"}} :
                    createJobCard(found, ids)
    \/ Quiet /\ addJobItem(1, 105, 50)
    \/ Quiet /\ \E s \in {"ready", "delivered"} : updateJobCard(s, FALSE)
    \/ Quiet /\ \E code \in CouponCodes, usable \in BOOLEAN : applyCoupon(code, usable)
    \/ Quiet /\ approveEstimate
    \/ genLoad(1)
    \/ genCheck(1)
    \/ createFromJobCardCount(1)
    \/ createFromJobCardInsert(1)
    \/ Quiet /\ \E i \in 1..MaxInvoices : cancelInvoice(i)

SpecFailure == Init /\ [][NextFailure]_vars

----------------------------------------------------------------------------
(* Side effects that fail, one request at a time.  A job card either goes
   through status updates and estimates with their notifications, or it is
   invoiced, paid through the gateway and the gateway payment refunded: the
   two write no common field *)

\* no request has touched the invoice or the ledger yet
JobCardOnly == jobItems = <<>> /\ reqs[1].pc = "idle"

\* no request has changed the status or the estimate yet
Fresh == Len(statusHistory) = 1 /\ estimate = NoEstimate

NextEffects ==
    \/ JobCardOnly /\ \E s \in {"inspection", "ready"} : statusSave(1, s, FALSE)
    \/ \E through \in 0..2 : statusNotify(1, through)
    \/ JobCardOnly /\ estimateSave(1, OneItem, 0, "", Null, Null)
    \/ \E sent \in BOOLEAN : estimateNotify(1, sent)
    \/ JobCardOnly /\ rejectSave(1)
    \/ \E sent \in BOOLEAN : rejectNotify(1, sent)
    \/ Quiet /\ Calm /\ Fresh /\ addJobItem(2, 106, 0)
    \/ Calm /\ jobItems # <<>> /\ genLoad(1)
    \/ genCheck(1)
    \/ createFromJobCardCount(1)
    \/ createFromJobCardInsert(1)
    \/ Quiet /\ ~InvoicePaid
             /\ \E i \in 1..MaxInvoices :
                    verifyLoad(1, i, "order_1", "pay_1",
                               Hmac(KeySecret, <<"order_1", "|", "pay_1">>), TRUE,
                               GatewayAmount("pay_1"))
    \/ verifyCreate(1)
    \/ verifySave(1)
    \/ \E sent \in BOOLEAN : verifyNotify(1, sent)
    \/ Quiet /\ Calm /\ InvoicePaid /\ recordGatewayPayment(250, "pay_1")
    \/ Calm /\ \E a \in RefundAmounts : requestRefund(a)
    \/ \E k \in 1..MaxRefunds : refundLoad(1, k)
    \/ \E done \in BOOLEAN : refundGateway(1, done)
    \/ refundSavePayment(1)
    \/ refundSaveRefund(1)

SpecEffects == Init /\ [][NextEffects]_vars

----------------------------------------------------------------------------
(* The approval of job items: items are added and removed, the job card is
   brought to awaiting-approval by an inspection or an estimate, and the
   customer approves items; one request at a time *)

NextApproval ==
    \/ addJobItem(1, 105, 50)
    \/ \E id \in 1..MaxItems : removeJobItem(id)
    \/ \E ids \in SUBSET (1..MaxItems) : approveJobItems(ids)
    \/ updateJobCard("inspection", FALSE)
    \/ updateBilling(40, "goodwill", Null)
    \/ createOrUpdateEstimate(OneItem, 0, "", Null, Null)
    \/ getJobCard

SpecApproval == Init /\ [][NextApproval]_vars

----------------------------------------------------------------------------
(* Refunds side by side: a cash payment of the ledger is settled, refunds of
   it are requested and reviewed, and two processRefund requests run between
   each other's steps *)

NextRefundRace ==
    \/ Calm /\ createInvoicePayment(250, "CASH")
    \/ Calm /\ markPaid
    \/ Calm /\ \E a \in RefundAmounts : requestRefund(a)
    \/ Calm /\ \E k \in 1..MaxRefunds : rejectRefund(k)
    \/ \E c \in CallIds, k \in 1..MaxRefunds : refundLoad(c, k)
    \/ \E c \in CallIds : refundSavePayment(c)
    \/ \E c \in CallIds : refundSaveRefund(c)

SpecRefundRace == Init /\ [][NextRefundRace]_vars

----------------------------------------------------------------------------
(* Insurance claims *)

STATUS_ORDER ==
    << "INITIATED", "DOCUMENTS_UPLOADED", "SURVEY_DONE", "APPROVED", "REJECTED",
       "SETTLED" >>

ClaimStatuses == {STATUS_ORDER[k] : k \in 1..Len(STATUS_ORDER)}

\* STATUS_ORDER.indexOf(s): from 0, and -1 for a status the order lacks
IndexOf(s) ==
    IF s \in ClaimStatuses
    THEN (CHOOSE k \in 1..Len(STATUS_ORDER) : STATUS_ORDER[k] = s) - 1
    ELSE 0 - 1

canTransition(current, next) ==
    IF current = next THEN TRUE
    ELSE IF current = "SETTLED" \/ current = "REJECTED" THEN FALSE
    ELSE IndexOf(next) = IndexOf(current) + 1

\* the statuses the validation of the status route lets through
updateClaimStatusValidation ==
    {"INITIATED", "DOCUMENTS_UPLOADED", "APPROVED", "REJECTED", "SETTLED"}

\* the types of document the validation of the upload route lets through
DocumentTypes == {"RC", "SURVEY"}

\* createInsuranceJob: `found` says whether the job card exists
createInsuranceJob(found) ==
    /\ IF ~found
       THEN /\ resp' = Err("createInsuranceJob", "notFound", "jobCard")
            /\ UNCHANGED insuranceJob
       ELSE IF insuranceJob.exists
       THEN /\ resp' = Err("createInsuranceJob", "conflict", "exists")
            /\ UNCHANGED insuranceJob
       ELSE /\ insuranceJob' = [exists |-> TRUE, claimStatus |-> "INITIATED",
                                statusHistory |-> << "INITIATED" >>,
                                documents |-> <<>>]
            /\ resp' = Ok("createInsuranceJob")
    /\ UNCHANGED <<jobVars, invoices, payments, reqs, now, usage, advance, refunds,
                   effects, calls, created>>

\* updateClaimStatus of the job card's insurance job
updateClaimStatus(claimStatus) ==
    /\ IF ~insuranceJob.exists
       THEN /\ resp' = Err("updateClaimStatus", "notFound", "insuranceJob")
            /\ UNCHANGED insuranceJob
       ELSE IF ~canTransition(insuranceJob.claimStatus, claimStatus)
       THEN /\ resp' = ErrStatus("updateClaimStatus", claimStatus, "badRequest",
                                 "invalidTransition", 0)
            /\ UNCHANGED insuranceJob
       ELSE /\ Len(insuranceJob.statusHistory) < MaxClaimHistory
            /\ insuranceJob' = [insuranceJob EXCEPT
                                  !.claimStatus = claimStatus,
                                  !.statusHistory = Append(@, claimStatus)]
            /\ resp' = OkStatus("updateClaimStatus", claimStatus)
    /\ UNCHANGED <<jobVars, invoices, payments, reqs, now, usage, advance, refunds,
                   effects, calls, created>>

\* PUT /insurance-jobs/:id/status: the validation, then updateClaimStatus;
\* `enforced` says whether the validate middleware turns a value the
\* validation does not list into an error
putClaimStatus(claimStatus, enforced) ==
    IF enforced /\ claimStatus \notin updateClaimStatusValidation
    THEN /\ resp' = ErrStatus("validate", claimStatus, "badRequest", "validation", 0)
         /\ UNCHANGED <<jobVars, invoices, payments, reqs, now>>
         /\ UNCHANGED extVars
    ELSE updateClaimStatus(claimStatus)

\* uploadDocument: `hasFile` says whether the request carries a file,
\* `uploaded` whether imagekitService.uploadImage succeeds
uploadDocument(type, hasFile, uploaded) ==
    /\ IF ~insuranceJob.exists
       THEN /\ resp' = Err("uploadDocument", "notFound", "insuranceJob")
            /\ UNCHANGED insuranceJob
       ELSE IF ~hasFile
       THEN /\ resp' = Err("uploadDocument", "badRequest", "fileRequired")
            /\ UNCHANGED insuranceJob
       ELSE IF ~uploaded
       THEN /\ resp' = Err("uploadDocument", "internal", "uploadFailed")
            /\ UNCHANGED insuranceJob
       ELSE /\ Len(insuranceJob.documents) < MaxDocuments
            /\ insuranceJob.claimStatus = "INITIATED"
                 => Len(insuranceJob.statusHistory) < MaxClaimHistory
            /\ insuranceJob' =
                 IF insuranceJob.claimStatus = "INITIATED"
                 THEN [insuranceJob EXCEPT
                         !.documents = Append(@, type),
                         !.claimStatus = "DOCUMENTS_UPLOADED",
                         !.statusHistory = Append(@, "DOCUMENTS_UPLOADED")]
                 ELSE [insuranceJob EXCEPT !.documents = Append(@, type)]
            /\ resp' = Ok("uploadDocument")
    /\ UNCHANGED <<jobVars, invoices, payments, reqs, now, usage, advance, refunds,
                   effects, calls, created>>

\* deleteDocument of the k-th document
deleteDocument(k) ==
    /\ IF ~insuranceJob.exists
       THEN /\ resp' = Err("deleteDocument", "notFound", "insuranceJob")
            /\ UNCHANGED insuranceJob
       ELSE IF insuranceJob.claimStatus = "SETTLED"
       THEN /\ resp' = Err("deleteDocument", "badRequest", "settled")
            /\ UNCHANGED insuranceJob
       ELSE IF k \notin 1..Len(insuranceJob.documents)
       THEN /\ resp' = Err("deleteDocument", "notFound", "document")
            /\ UNCHANGED insuranceJob
       ELSE /\ insuranceJob' = [insuranceJob EXCEPT !.documents =
                 [j \in 1..(Len(@) - 1) |-> IF j < k THEN @[j] ELSE @[j + 1]]]
            /\ resp' = Ok("deleteDocument")
    /\ UNCHANGED <<jobVars, invoices, payments, reqs, now, usage, advance, refunds,
                   effects, calls, created>>

NextInsurance ==
    \/ \E found \in BOOLEAN : createInsuranceJob(found)
    \/ \E s \in ClaimStatuses, enforced \in BOOLEAN : putClaimStatus(s, enforced)
    \/ \E type \in DocumentTypes, hasFile \in BOOLEAN, uploaded \in BOOLEAN :
          uploadDocument(type, hasFile, uploaded)
    \/ \E k \in 1..MaxDocuments : deleteDocument(k)

SpecInsurance == Init /\ [][NextInsurance]_vars

----------------------------------------------------------------------------
(* Properties of the status machine *)

DeliveryHandlers == {"updateJobCard", "updateAssignedJobCardStatus"}

\* the condition of the delivered guard, at the request
MayDeliver == status = "ready" /\ balanceDue <= Tolerance

\* the order of the states; cancelled stands outside it
Rank(s) ==
    CASE s = "created" -> 1
      [] s = "inspection" -> 2
      [] s = "awaiting-approval" -> 3
      [] s = "approved" -> 4
      [] s = "in-progress" -> 5
      [] s = "quality-check" -> 6
      [] s = "ready" -> 7
      [] s = "delivered" -> 8
      [] OTHER -> 0

\* the status becomes delivered only by one of the two status handlers, asked
\* for delivered, on a ready job card whose balance is within the tolerance
DeliveredOnlyWhenReadyAndPaid ==
    (status # "delivered" /\ status' = "delivered") =>
        /\ resp'.op \in DeliveryHandlers
        /\ resp'.arg = "delivered"
        /\ resp'.err = None
        /\ MayDeliver

\* C1 (as the code has it): a job card becomes delivered only through
\* updateJobCard or updateAssignedJobCardStatus and only when it is ready and
\* grandTotal - totalPaid is at most 0.01; every other request for delivered on
\* a job card not yet delivered fails and leaves status and history unchanged.
\* The error states the balance when the job card is ready; when it is not
\* ready the error is "must be marked ready" (or Forbidden for a mechanic who
\* is not assigned) and states no balance.
C1_DeliveredGuarded ==
    [][ /\ DeliveredOnlyWhenReadyAndPaid
        /\ ( /\ resp'.op \in DeliveryHandlers
             /\ resp'.arg = "delivered"
             /\ status # "delivered"
             /\ ~MayDeliver ) =>
                /\ resp'.err # None
                /\ status' = status
                /\ statusHistory' = statusHistory
                /\ (resp'.err = "badRequest" /\ status = "ready") =>
                       (resp'.msg = "balanceDue" /\ resp'.bal = balanceDue)
                /\ (resp'.err = "badRequest" /\ status # "ready") =>
                       (resp'.msg = "notReady" /\ resp'.bal = 0)
      ]_vars

\* a job card with a bill of 1.25 was delivered by a status handler after
\* payments of 0.62 and 0.63
C1_Witness ==
    /\ status = "delivered"
    /\ resp.op \in DeliveryHandlers /\ resp.arg = "delivered" /\ resp.err = None
    /\ billing.grandTotal = 125
    /\ getJobCardPayments = 125

\* C1 as stated: every request for delivered outside the guard's condition
\* fails with an error that states the balance
C1_EveryRefusalStatesBalance ==
    [][ /\ DeliveredOnlyWhenReadyAndPaid
        /\ ( /\ resp'.op \in DeliveryHandlers
             /\ resp'.arg = "delivered"
             /\ ~MayDeliver ) =>
                /\ resp'.err # None
                /\ resp'.msg = "balanceDue"
                /\ resp'.bal = balanceDue
                /\ status' = status
      ]_vars

\* C2: in every reachable state the status of the last statusHistory entry is
\* the job card's status
C2_LastHistoryEntryIsStatus ==
    statusHistory[Len(statusHistory)].status = status

\* C3: the status never moves to an earlier state of the order, and never
\* changes once it is delivered or cancelled
C3_StatusOnlyForward ==
    [][ status' # status =>
          /\ status \notin {"delivered", "cancelled"}
          /\ (status' = "cancelled" \/ Rank(status') > Rank(status))
      ]_vars

\* C7: in every reachable state an estimate that is PENDING_APPROVAL has its
\* job card in awaiting-approval
C7_PendingEstimateAwaitsApproval ==
    estimate.status = "PENDING_APPROVAL" => status = "awaiting-approval"

----------------------------------------------------------------------------
(* Properties of billing and of the estimate's review *)

\* C4: after every operation that writes the billing, billing.grandTotal is
\* round2(max(0, subtotal - discount) + taxAmount)
C4_GrandTotalFormula ==
    billing.grandTotal
        = round2(Max(0, billing.subtotal - billing.discount) + billing.taxAmount, 1)

\* an approved estimate with a discount and tax has been copied over a billing
\* that had other totals
C4_Witness ==
    /\ resp.op = "approveEstimate" /\ resp.err = None
    /\ estimate.status = "APPROVED"
    /\ billing.subtotal = 106 /\ billing.taxAmount = 19 /\ billing.grandTotal = 125
    /\ jobItems # <<>>

\* C5: when approveEstimate succeeds the estimate is APPROVED, the status is
\* approved and the billing's six fields are the estimate's, whatever the
\* estimate's grandTotal
C5_ApprovalCopiesEstimate ==
    [][ (approveEstimate /\ resp'.err = None) =>
          /\ estimate'.status = "APPROVED"
          /\ status' = "approved"
          /\ billing'.subtotal = estimate.subtotal
          /\ billing'.discount = estimate.discountAmount
          /\ billing'.discountReason = estimate.discountReason
          /\ billing'.taxRate = estimate.taxRate
          /\ billing'.taxAmount = estimate.taxAmount
          /\ billing'.grandTotal = estimate.grandTotal
      ]_vars

\* the current version of the estimate has been approved or rejected
Reviewed == estimate.status \in {"APPROVED", "REJECTED"}

----------------------------------------------------------------------------
(* Properties of invoices *)

\* C8: in every reachable state the job card has at most one invoice that is
\* not CANCELLED, also when requests for its invoice interleave
C8_AtMostOneActiveInvoice ==
    Cardinality(ActiveInvoices({"CANCELLED"})) <= 1

\* what an issued invoice states: its number, lines and totals
Frozen(inv) ==
    <<inv.invoiceNumber, inv.items, inv.subtotal, inv.discount, inv.discountReason,
      inv.taxableAmount, inv.taxRateX2, inv.cgstAmountX200, inv.sgstAmountX200,
      inv.totalTax, inv.grandTotal>>

PaymentEvent == resp'.op \in {"recordPayment", "verifyPayment"} /\ resp'.err = None

\* no invoice is removed, and the lines and totals of each stay as issued
InvoicesKept ==
    /\ Len(invoices') >= Len(invoices)
    /\ \A i \in 1..Len(invoices) : Frozen(invoices'[i]) = Frozen(invoices[i])

\* paidAmount, balanceAmount and paidAt change on payment events only
AmountsFollowPayments ==
    \A i \in 1..Len(invoices) :
        ( \/ invoices'[i].paidAmount # invoices[i].paidAmount
          \/ invoices'[i].balanceAmount # invoices[i].balanceAmount
          \/ invoices'[i].paidAt # invoices[i].paidAt ) => PaymentEvent

StatusRule(before, inv) ==
    IF inv.status \in {"CANCELLED", "REFUNDED"} THEN TRUE
    ELSE IF inv.paidAmount >= inv.grandTotal THEN inv.status = "PAID"
    ELSE IF inv.paidAmount > 0 THEN inv.status = "PARTIALLY_PAID"
    ELSE inv.status = before

\* C10: after every write of an invoice balanceAmount is
\* max(0, grandTotal - paidAmount); unless CANCELLED or REFUNDED the status is
\* PAID if paidAmount >= grandTotal, else PARTIALLY_PAID if paidAmount > 0, else
\* what it was; paidAt is set when the invoice first becomes PAID, to the time
\* of that write, and never changes afterwards
C10_BalanceStatusPaidAt ==
    [][ \A i \in 1..Len(invoices') :
          LET inv == invoices'[i]
              isNew == i > Len(invoices)
          IN  /\ inv.balanceAmount = Max(0, inv.grandTotal - inv.paidAmount)
              /\ StatusRule(IF isNew THEN "ISSUED" ELSE invoices[i].status, inv)
              /\ inv.status = "PAID" => inv.paidAt # Null
              /\ (~isNew /\ invoices[i].paidAt # Null) => inv.paidAt = invoices[i].paidAt
              /\ (inv.paidAt # Null /\ (isNew \/ invoices[i].paidAt = Null)) =>
                     (inv.paidAt = now /\ inv.status = "PAID")
      ]_vars

\* an invoice paid in full at time 0 and overpaid by a second payment, with
\* the clock at 1: the balance is 0 and paidAt still 0
C10_Witness ==
    /\ Len(invoices) >= 1
    /\ invoices[1].status = "PAID"
    /\ invoices[1].paidAmount = 125
    /\ invoices[1].grandTotal = 63
    /\ invoices[1].balanceAmount = 0
    /\ invoices[1].paidAt = 0
    /\ now = 1
    /\ resp.op = "recordPayment"

----------------------------------------------------------------------------
(* Properties of payment through the gateway *)

RECURSIVE SumFor(_, _)
\* the total of the payments created against invoice i
SumFor(i, ps) ==
    IF ps = <<>> THEN 0
    ELSE (IF Head(ps).invoiceId = i THEN Head(ps).amount ELSE 0) + SumFor(i, Tail(ps))

FullyPaid(inv) == inv.status = "PAID" /\ inv.paidAmount >= inv.grandTotal

\* C11: once an invoice is PAID with paidAmount >= grandTotal, no verifyPayment
\* against it gets past its checks (so none creates a Payment or raises
\* paidAmount), and every createPaymentOrder against it is rejected.
C11_PaidInvoiceRefusesPayment ==
    [][ /\ \A c \in CallIds :
             (calls[c].pc = "idle" /\ calls'[c].pc = "create")
                 => ~FullyPaid(invoices[calls'[c].id])
        /\ \A i \in 1..Len(invoices), a \in {0, 100}, ordered \in BOOLEAN :
             (FullyPaid(invoices[i]) /\ createPaymentOrder(i, a, ordered))
                 => resp'.err # None ]_vars

\* C12: whenever no verifyPayment is in flight, every invoice's paidAmount is
\* the total of the payments verified against it: of two verifications run
\* side by side, neither increment is lost.
C12_NoLostIncrement ==
    Calm => \A i \in 1..Len(invoices) : invoices[i].paidAmount = SumFor(i, payments)

\* C13: every Payment created through the gateway carries a signature that
\* is the HMAC of its `orderId|paymentId` under the shared secret, an
\* invoice's paidAmount grows only in the save of a request whose signature
\* verified and whose Payment is already created, and a refused verifyPayment
\* leaves the invoices and the payments as they were.
C13_PaymentOnlyAfterSignature ==
    [][ /\ \A k \in 1..Len(payments') :
             payments'[k].transactionId # "cash"
                 => payments'[k].signature =
                        Hmac(KeySecret, <<payments'[k].orderId, "|",
                                          payments'[k].transactionId>>)
        /\ \A i \in 1..Len(invoices) :
             invoices'[i].paidAmount > invoices[i].paidAmount
                 => \E c \in CallIds :
                      /\ calls[c].pc = "save" /\ calls[c].id = i
                      /\ calls[c].sig = Hmac(KeySecret, <<calls[c].order, "|", calls[c].key>>)
                      /\ \E k \in 1..Len(payments) :
                           payments[k].transactionId = calls[c].key
        /\ (resp'.op = "verifyPayment" /\ resp'.err # None /\ resp' # resp)
                 => UNCHANGED <<invoices, payments>> ]_vars

\* a forged signature was refused after a verified payment had been taken,
\* and the invoice holds that one payment only
C13_Witness ==
    /\ resp.op = "verifyPayment" /\ resp.msg = "verificationFailed"
    /\ Len(payments) = 1 /\ payments[1].transactionId = "pay_2"
    /\ Len(invoices) = 1 /\ invoices[1].paidAmount = 100
    /\ invoices[1].status = "PARTIALLY_PAID"
    /\ Calm

----------------------------------------------------------------------------
(* Properties of coupons *)

\* an applyCoupon request that found its own code already on the job card,
\* with the usage of the first application already recorded
Reapplies(c) ==
    /\ calls[c].op = "applyCoupon"
    /\ calls[c].doc.billing.coupon = calls[c].key
    /\ calls[c].amount >= 1

\* C17: an applyCoupon of the code the job card already carries, made after
\* the first application was recorded, leaves billing.discount as it is and
\* records no further usage, whatever the coupon's limits; an applyCoupon of another code than the one attached is
\* refused and changes neither the job card nor a counter.
C17_SameCouponCountedOnce ==
    [][ /\ \A c \in CallIds :
             (Reapplies(c) /\ calls[c].pc = "save" /\ calls'[c].pc = "record")
                 => billing'.discount = billing.discount
        /\ \A c \in CallIds :
             (Reapplies(c) /\ calls[c].pc = "record" /\ calls'[c].pc = "idle")
                 => usage' = usage
        /\ \A c \in CallIds, code \in CouponCodes, usable \in BOOLEAN :
             (billing.coupon \notin {"", code} /\ couponLoad(c, code, usable))
                 => /\ resp'.err = "badRequest"
                    /\ UNCHANGED <<billing, usage, calls>> ]_vars

\* the usage counters stand above a limit of the coupon
OverLimit(code, u) ==
    \/ UsageLimit(code).total # 0 - 1 /\ u.usedCount > UsageLimit(code).total
    \/ u.perUser > UsageLimit(code).perUser

\* C18: the step that takes a coupon's usage above a limit is the recordUsage
\* of a request that validated against a smaller count than the one now
\* stored: another request recorded its usage between this one's canBeUsedBy
\* and its recordUsage.  Requests that do not overlap never exceed a limit.
C18_LimitExceededOnlyByOverlap ==
    [][ \A code \in CouponCodes :
          (OverLimit(code, usage'[code]) /\ ~OverLimit(code, usage[code]))
              => \E c \in CallIds :
                   /\ calls[c].op = "applyCoupon" /\ calls[c].pc = "record"
                   /\ calls[c].key = code
                   /\ calls'[c].pc = "idle"
                   /\ calls[c].amount < usage[code].usedCount ]_vars

\* SAVE40 had one use left under its total limit of 2 and has been used 3 times
C18_Witness ==
    /\ usage["SAVE40"].usedCount = 3
    /\ Calm
    /\ billing.coupon = "SAVE40" /\ billing.discount = 40

----------------------------------------------------------------------------
(* Properties of refunds *)

\* the step in which request c ends a processRefund with success
ProcessedBy(c) ==
    calls[c].op = "processRefund" /\ calls[c].pc = "saveRefund" /\ calls'[c].pc = "idle"

\* C14: a processRefund of r against a payment whose paid amount was p >= r
\* leaves the payment with paid amount p - r, REFUNDED when that is zero, and
\* leaves every invoice of the job card that was PAID as PARTIALLY_PAID when
\* p - r is positive and below the invoice's grandTotal.
C14_RefundReducesPaymentAndInvoice ==
    [][ \A c \in CallIds :
          (ProcessedBy(c) /\ calls[c].doc.paidAmount >= calls[c].amount)
              => LET remaining == calls[c].doc.paidAmount - calls[c].amount
                 IN  /\ advance'.paidAmount = remaining
                     /\ remaining = 0 => advance'.paymentStatus = "REFUNDED"
                     /\ \A i \in 1..Len(invoices) :
                          (/\ invoices[i].status = "PAID"
                           /\ remaining > 0
                           /\ remaining < invoices[i].grandTotal)
                              => invoices'[i].status = "PARTIALLY_PAID" ]_vars

RefundTransitions ==
    { <<"PENDING", "APPROVED">>, <<"PENDING", "REJECTED">>,
      <<"PENDING", "PROCESSED">>, <<"APPROVED", "PROCESSED">> }

\* C15: a refund request's status changes only along PENDING -> APPROVED,
\* PENDING -> REJECTED, PENDING -> PROCESSED and APPROVED -> PROCESSED (so
\* REJECTED and PROCESSED are never left), its amount never changes, a refused
\* approveRefund, rejectRefund or processRefund leaves the refunds and the
\* payment as they were, and the payment is only ever decremented for a
\* refund that is not yet PROCESSED or REJECTED.
C15_RefundStatusOneWay ==
    [][ /\ \A k \in 1..Len(refunds) :
             /\ refunds'[k].requestedAmount = refunds[k].requestedAmount
             /\ refunds'[k].status # refunds[k].status
                   => <<refunds[k].status, refunds'[k].status>> \in RefundTransitions
        /\ (/\ resp'.op \in {"approveRefund", "rejectRefund", "processRefund"}
            /\ resp'.err # None /\ resp' # resp)
               => UNCHANGED <<refunds, advance>>
        /\ advance'.paidAmount < advance.paidAmount
               => \E c \in CallIds :
                    /\ calls[c].op = "processRefund" /\ calls[c].pc = "savePayment"
                    /\ refunds[calls[c].id].status \in {"PENDING", "APPROVED"} ]_vars

\* one refund was rejected and a processRefund of it refused, the other was
\* approved and processed, and the payment was decremented once
C15_Witness ==
    /\ Len(refunds) = 2
    /\ refunds[1].status = "REJECTED" /\ refunds[2].status = "PROCESSED"
    /\ resp.op = "processRefund" /\ resp.msg = "cannotBeProcessed"
    /\ advance.paidAmount = 150 /\ advance.paymentStatus = "PARTIAL"

RECURSIVE SumProcessed(_)
\* the total of the refund requests that are PROCESSED
SumProcessed(rs) ==
    IF rs = <<>> THEN 0
    ELSE (IF Head(rs).status = "PROCESSED" THEN Head(rs).requestedAmount ELSE 0)
         + SumProcessed(Tail(rs))

RECURSIVE SumAmounts(_)
\* the total of the payment's transactions
SumAmounts(ts) == IF ts = <<>> THEN 0 ELSE Head(ts) + SumAmounts(Tail(ts))

\* C16: the PROCESSED refund requests of the payment never total more than
\* was paid on it, and a refund request above the payment's paid amount is
\* refused and not created.
C16_RefundsWithinPaid ==
    [][ /\ SumProcessed(refunds') <= SumAmounts(advance'.transactions)
        /\ \A a \in RefundAmounts :
             (a > advance.paidAmount /\ requestRefund(a))
                 => resp'.err = "badRequest" /\ UNCHANGED <<refunds, advance>> ]_vars

\* C19: a notification or a gateway refund is attempted only when the amount
\* its operation changes is already stored: the invoice's paidAmount for
\* verifyPayment, the payment's paid amount for processRefund; addTransaction
\* and markPaid attempt no side effect.
C19_PersistedBeforeSideEffect ==
    [][ /\ effects'.notices # effects.notices
             => \E c \in CallIds :
                  /\ calls[c].op = "verifyPayment" /\ calls[c].pc = "notify"
                  /\ invoices[calls[c].id].paidAmount
                        = calls[c].doc.paidAmount + calls[c].amount
                  /\ \E k \in 1..Len(payments) : payments[k].transactionId = calls[c].key
        /\ effects'.refunds # effects.refunds
             => \E c \in CallIds :
                  /\ calls[c].op = "processRefund"
                  /\ advance.paidAmount
                        = Max(calls[c].doc.paidAmount - calls[c].amount, 0)
                  /\ advance.paidAmount < calls[c].doc.paidAmount
        /\ resp'.op \in {"addTransaction", "markPaid"} => effects' = effects ]_vars

----------------------------------------------------------------------------
(* Properties of refused requests *)

\* what the requests persist: the job card, the invoices, the payments, the
\* coupon's counters, the advanced ledger and the JobCard collection
stored == <<status, statusHistory, assigned, jobItems, billing, estimate,
            estimateHistory, invoices, payments, usage, advance, refunds, created>>

\* C20: the step in which a request answers with an error changes nothing
\* that is stored.
C20_FailedRequestWritesNothing ==
    [][ (resp'.err # None /\ resp' # resp) => UNCHANGED stored ]_vars

----------------------------------------------------------------------------
(* Properties of side effects *)

\* what the request c, now at its notification, has written is stored
Persisted(c) ==
    CASE calls[c].op = "updateJobCard" -> status' = calls[c].key
      [] calls[c].op = "createOrUpdateEstimate" ->
             estimate'.status = "PENDING_APPROVAL" /\ estimate'.version >= 1
      [] calls[c].op = "rejectEstimate" ->
             /\ estimate'.status = "REJECTED"
             /\ estimateHistory'[Len(estimateHistory')] = estimate'
      [] calls[c].op = "verifyPayment" ->
             /\ \E k \in 1..Len(payments') : payments'[k].transactionId = calls[c].key
             /\ invoices'[calls[c].id].paidAmount = calls[c].doc.paidAmount + calls[c].amount
      [] OTHER -> FALSE

\* the gateway refuses the refund in this step
GatewayRefuses ==
    /\ Len(effects'.refunds) > Len(effects.refunds)
    /\ ~effects'.refunds[Len(effects'.refunds)].done

\* C21: the step in which a notification fails answers the request with
\* success and leaves everything stored as the request wrote it; the step in
\* which the gateway refuses a refund ends no request and changes nothing
\* stored, and the processRefund goes on to its saves; a processRefund that
\* ends, ends with success, the refund PROCESSED and the payment reduced.
C21_SideEffectFailureSwallowed ==
    [][ /\ effects'.failed # effects.failed
             => /\ resp'.err = None
                /\ UNCHANGED stored
                /\ \E c \in CallIds :
                      /\ calls[c].pc = "notify" /\ calls'[c].pc = "idle"
                      /\ resp'.op = calls[c].op
                      /\ Persisted(c)
        /\ GatewayRefuses
             => /\ UNCHANGED <<resp, stored>>
                /\ \E c \in CallIds :
                      calls[c].op = "processRefund" /\ calls'[c].pc = "savePayment"
        /\ \A c \in CallIds :
             ProcessedBy(c)
                 => /\ resp' = Ok("processRefund")
                    /\ refunds'[calls[c].id].status = "PROCESSED"
                    /\ advance'.paidAmount
                          = Max(calls[c].doc.paidAmount - calls[c].amount, 0) ]_vars

\* the payment notification failed and the invoice is PAID; the gateway then
\* refused the refund of 1.00 and the refund is PROCESSED, the payment reduced
C21_Witness ==
    /\ effects.failed = {"pay_1"}
    /\ Len(invoices) = 1 /\ invoices[1].status = "PAID" /\ invoices[1].paidAmount = 250
    /\ Len(effects.refunds) = 1 /\ ~effects.refunds[1].done
    /\ Len(refunds) = 1 /\ refunds[1].status = "PROCESSED"
    /\ advance.paidAmount = 150
    /\ resp = Ok("processRefund")

----------------------------------------------------------------------------
(* Properties of the approval of job items *)

RECURSIVE ApprovedTotal(_)
\* the total of the items that are approved
ApprovedTotal(items) ==
    IF items = <<>> THEN 0
    ELSE (IF Head(items).isApproved THEN Head(items).total ELSE 0)
         + ApprovedTotal(Tail(items))

\* C22: approveJobItems succeeds exactly when the status is awaiting-approval
\* and changes nothing otherwise; when it succeeds the items approved are
\* those that were approved and those named, the status is approved if no
\* item is left unapproved and awaiting-approval otherwise, and
\* billing.subtotal is the total of the approved items.  No request takes
\* the approval from an item that is still on the job card.
C22_ApprovalOfItems ==
    [][ /\ \A ids \in SUBSET (1..MaxItems) :
             (resp'.op = "approveJobItems" /\ approveJobItems(ids)) =>
                /\ (resp'.err = None) <=> (status = "awaiting-approval")
                /\ resp'.err # None => UNCHANGED <<status, statusHistory, jobItems, billing>>
                /\ resp'.err = None =>
                      /\ Len(jobItems') = Len(jobItems)
                      /\ \A i \in 1..Len(jobItems) :
                            jobItems'[i].isApproved
                               <=> (jobItems[i].isApproved \/ jobItems[i].id \in ids)
                      /\ (status' = "approved")
                            <=> (\A i \in 1..Len(jobItems') : jobItems'[i].isApproved)
                      /\ status' \in {"approved", "awaiting-approval"}
                      /\ billing'.subtotal = ApprovedTotal(jobItems')
        /\ \A i \in 1..Len(jobItems), j \in 1..Len(jobItems') :
             (jobItems[i].isApproved /\ jobItems'[j].id = jobItems[i].id)
                 => jobItems'[j].isApproved ]_vars

\* the customer approved the one item of a job card that awaited approval:
\* the job card is approved and the subtotal is the item's total
C22_Witness ==
    /\ resp = Ok("approveJobItems")
    /\ status = "approved"
    /\ Len(jobItems) = 1 /\ jobItems[1].isApproved
    /\ billing.subtotal = 53

----------------------------------------------------------------------------
(* Properties of the estimate's versions *)

\* C23: every successful createOrUpdateEstimate raises the estimate's version
\* by exactly one and nothing else changes it; estimateHistory only grows,
\* its entries staying as they are; and for every version below the current
\* one estimateHistory holds the estimate of that version.
C23_EveryVersionInHistory ==
    [][ /\ \A in \in EstimateInputs :
             (createOrUpdateEstimate(in[1], in[2], in[3], in[4], in[5])
                 /\ resp'.err = None)
                 => estimate'.version = estimate.version + 1
        /\ estimate'.version # estimate.version
             => /\ estimate'.version = estimate.version + 1
                /\ resp' = Ok("createOrUpdateEstimate")
        /\ Len(estimateHistory') >= Len(estimateHistory)
        /\ \A k \in 1..Len(estimateHistory) : estimateHistory'[k] = estimateHistory[k]
        /\ \A v \in 1..(estimate'.version - 1) :
             \E k \in 1..Len(estimateHistory') : estimateHistory'[k].version = v ]_vars

----------------------------------------------------------------------------
(* Properties of the invoice's tax breakdown *)

Abs(n) == IF n < 0 THEN 0 - n ELSE n

\* C24: on every invoice cgstAmount + sgstAmount is totalTax and
\* taxableAmount + totalTax is grandTotal, each within one paisa.
C24_TaxBreakdownAddsUp ==
    \A i \in 1..Len(invoices) :
        /\ Abs(invoices[i].cgstAmountX200 + invoices[i].sgstAmountX200
                  - 200 * invoices[i].totalTax) <= 200
        /\ Abs(invoices[i].taxableAmount + invoices[i].totalTax
                  - invoices[i].grandTotal) <= 1

----------------------------------------------------------------------------
(* Properties of refunds processed side by side *)

\* the step in which request c saves a payment with a lower paid amount
DecrementedBy(c) ==
    /\ calls[c].op = "processRefund"
    /\ calls[c].pc = "savePayment" /\ calls'[c].pc = "saveRefund"
    /\ advance'.paidAmount < advance.paidAmount

\* C25: of the processRefund requests for one refund request, only one
\* lowers the payment's paid amount and only one sets the refund PROCESSED:
\* a request lowers the paid amount only for a refund that is not PROCESSED
\* and that no other request has already lowered it for, and it sets
\* PROCESSED only on a refund that is not PROCESSED yet.
C25_RefundProcessedOnce ==
    [][ \A c \in CallIds :
          /\ DecrementedBy(c)
                => /\ refunds[calls[c].id].status # "PROCESSED"
                   /\ \A d \in CallIds \ {c} :
                         ~ /\ calls[d].op = "processRefund"
                           /\ calls[d].pc = "saveRefund"
                           /\ calls[d].id = calls[c].id
          /\ ProcessedBy(c) => refunds[calls[c].id].status # "PROCESSED" ]_vars

----------------------------------------------------------------------------
(* Properties of the payment's status under refunds *)

\* a refund request that is neither rejected nor processed
OpenRefund(k) == refunds[k].status \in {"PENDING", "APPROVED"}

\* paid against total, as a payment status
StatusByAmounts(payment) ==
    IF payment.paidAmount = 0 THEN "REFUNDED"
    ELSE IF payment.paidAmount >= payment.totalAmount THEN "PAID"
    ELSE "PARTIAL"

\* C26: the payment is REFUND_PENDING only while one of its refund requests
\* is PENDING or APPROVED; when refunds were requested, all of them are
\* REJECTED or PROCESSED and no request is in flight, paymentStatus is PAID,
\* PARTIAL or REFUNDED as paid stands against total.
C26_RefundPendingHasOpenRefund ==
    /\ advance.paymentStatus = "REFUND_PENDING"
          => \E k \in 1..Len(refunds) : OpenRefund(k)
    /\ (Calm /\ refunds # <<>> /\ \A k \in 1..Len(refunds) : ~OpenRefund(k))
          => advance.paymentStatus = StatusByAmounts(advance)

----------------------------------------------------------------------------
(* Properties of a gateway payment verified again *)

\* a Payment with this gateway payment id is recorded
Recorded(paymentId) ==
    \E k \in 1..Len(payments) : payments[k].transactionId = paymentId

\* C27: a verifyPayment with a valid signature for a gateway payment id that
\* is already recorded creates no Payment and leaves every invoice's
\* paidAmount as it is.
C27_GatewayPaymentCountedOnce ==
    [][ \A i \in 1..Len(invoices) :
          ( /\ Recorded("pay_1")
            /\ verifyPayment(i, "order_1", "pay_1",
                             Hmac(KeySecret, <<"order_1", "|", "pay_1">>), TRUE, 63) )
              => /\ payments' = payments
                 /\ \A j \in 1..Len(invoices) :
                       invoices'[j].paidAmount = invoices[j].paidAmount ]_vars

----------------------------------------------------------------------------
(* Properties of the billing under an issued invoice *)

\* C28: in every reachable state the job card's billing.grandTotal is the
\* grandTotal of each of its invoices that is not CANCELLED.
C28_BillingFollowsInvoice ==
    \A i \in ActiveInvoices({"CANCELLED"}) :
        billing.grandTotal = invoices[i].grandTotal

----------------------------------------------------------------------------
(* Properties of a cancelled invoice *)

\* the Payments recorded against invoice i
PaymentsOf(ps, i) ==
    {k \in 1..Len(ps) : "invoiceId" \in DOMAIN ps[k] /\ ps[k].invoiceId = i}

\* C29: cancelInvoice of an invoice that is PAID or has a paid amount changes
\* nothing, and no step changes the status or the paidAmount of a CANCELLED
\* invoice or records a Payment against it.
C29_CancelledIsTerminal ==
    [][ \A i \in 1..Len(invoices) :
          /\ ( /\ invoices[i].status = "PAID" \/ invoices[i].paidAmount > 0
               /\ resp'.op = "cancelInvoice"
               /\ cancelInvoice(i) )
                => invoices' = invoices
          /\ invoices[i].status = "CANCELLED"
                => /\ invoices'[i].status = "CANCELLED"
                   /\ invoices'[i].paidAmount = invoices[i].paidAmount
                   /\ PaymentsOf(payments', i) = PaymentsOf(payments, i) ]_vars

----------------------------------------------------------------------------
(* Properties of the insurance claim's status *)

\* the moves of a claim's status: each status to the next of the first four,
\* SURVEY_DONE and APPROVED to REJECTED, APPROVED to SETTLED
ClaimMoves ==
    { <<"INITIATED", "DOCUMENTS_UPLOADED">>, <<"DOCUMENTS_UPLOADED", "SURVEY_DONE">>,
      <<"SURVEY_DONE", "APPROVED">>, <<"SURVEY_DONE", "REJECTED">>,
      <<"APPROVED", "REJECTED">>, <<"APPROVED", "SETTLED">> }

\* C30: an updateClaimStatus asking for a move of ClaimMoves makes it, so
\* that every status can be reached from INITIATED; and no step takes a
\* claim out of REJECTED or SETTLED or to a status other than by such a move.
C30_ClaimStatusMoves ==
    [][ /\ \A next \in ClaimStatuses :
            ( /\ insuranceJob.exists
              /\ <<insuranceJob.claimStatus, next>> \in ClaimMoves
              /\ updateClaimStatus(next) )
                => insuranceJob'.claimStatus = next
        /\ ( insuranceJob.exists /\ insuranceJob'.claimStatus # insuranceJob.claimStatus )
              => <<insuranceJob.claimStatus, insuranceJob'.claimStatus>> \in ClaimMoves
      ]_vars

====
